---- MODULE Spec2Model ----
(***************************************************************************)
(* A model of backend/server.py of Deep-dive-RAG: the SQLite store         *)
(* (documents, document_chunks, research_sessions), the ingestion and      *)
(* deletion endpoints, the hybrid scorer and the five-step RAG pipeline    *)
(* (RAGPipeline.process_query) behind POST /research.                      *)
(*                                                                         *)
(* Text is a sequence of tokens.  A token is a whitespace run (SP), one of *)
(* the section labels the pipeline looks for, the gap separator ";" or a   *)
(* word.  The Python string methods the code uses are modelled on token    *)
(* sequences.  Floats are fixed-point numbers in thousandths.              *)
(*                                                                         *)
(* Specifications:                                                         *)
(*   Spec        one POST /research request, step by step, against whole   *)
(*               uploads and deletions                                     *)
(*   LiveSpec    Spec, where every awaited call returns or raises          *)
(*   StoreSpec   uploads and deletions, statement by statement             *)
(*   ReadSpec    search_chunks and get_document_details against uploads    *)
(*               in progress and whole deletions                           *)
(*   UploadSpec  POST /upload-document over files of every kind            *)
(*   DeleteSpec  DELETE /documents/{id} requests that interleave with each *)
(*               other and with uploads                                    *)
(*   ScorerSpec  search_chunks(query, k) over corpora built by uploads     *)
(*   ChunkSpec   chunk_text(text, size, overlap) as a function             *)
(*   IndexSpec   calculate_tf_idf(chunks) as a function, and step 1 of     *)
(*               the pipeline over corpora indexed by uploads              *)
(***************************************************************************)
EXTENDS Integers, Sequences, FiniteSets, TLC

\* ---------------------------------------------------------------- bounds
MaxUploads == 2
MaxDeletes == 1
\* DELETE /documents/{id} requests in flight at once
MaxConcurrentDeletes == 2
MaxTopK == 2
MaxChunkId == 4
MaxTextLen == 5
MaxChunkSize == 3
MaxOverlap == 3
MaxChunks == 3

\* the DELETE /documents/{id} requests that may be in flight together
DeleteRequests == 1..MaxDeletes

\* --------------------------------------------------------------- tokens
SP == " "
SEMI == ";"
IA == "INITIAL_ANSWER:"
GQ == "GAP_QUESTIONS:"
FA == "FINAL_ANSWER:"

\* ------------------------------------------------- Python string methods
\* tok in s
str_in(tok, s) == \E i \in DOMAIN s : s[i] = tok

\* s.strip(): leading and trailing whitespace removed
str_strip(s) ==
    IF \A i \in DOMAIN s : s[i] = SP THEN <<>>
    ELSE LET n == Len(s)
             leading == CHOOSE k \in 0..n : s[k + 1] # SP /\ \A j \in 1..k : s[j] = SP
             trailing == CHOOSE k \in 0..n : s[n - k] # SP /\ \A j \in 1..k : s[n + 1 - j] = SP
         IN  SubSeq(s, leading + 1, n - trailing)

\* s.split(sep): the parts between the occurrences of sep, count(sep) + 1 of them
RECURSIVE str_split_on(_, _)
str_split_on(s, sep) ==
    IF ~str_in(sep, s) THEN <<s>>
    ELSE LET i == CHOOSE k \in DOMAIN s : s[k] = sep /\ \A j \in 1..(k - 1) : s[j] # sep
         IN  <<SubSeq(s, 1, i - 1)>> \o str_split_on(SubSeq(s, i + 1, Len(s)), sep)

\* s.replace(tok, "")
str_replace(s, tok) == SelectSeq(s, LAMBDA t : t # tok)

\* s.split(): the words of s
str_split(s) == SelectSeq(s, LAMBDA t : t # SP)

\* " ".join(words)
str_join(words) ==
    IF Len(words) = 0 THEN <<>>
    ELSE [i \in 1..(2 * Len(words) - 1) |-> IF i % 2 = 1 THEN words[(i + 1) \div 2] ELSE SP]

\* len(s) in characters
RECURSIVE str_len(_)
str_len(s) ==
    IF Len(s) = 0 THEN 0
    ELSE IF Len(s) = 1 THEN Len(s[1])
    ELSE str_len(SubSeq(s, 1, Len(s) \div 2)) + str_len(SubSeq(s, Len(s) \div 2 + 1, Len(s)))

\* ------------------------------------------------------ DocumentProcessor
CHUNK_SIZE == 500
CHUNK_OVERLAP == 50

RECURSIVE ChunksFrom(_, _, _, _)
ChunksFrom(words, i, chunk_size, step) ==
    IF i > Len(words) THEN <<>>
    ELSE LET hi == IF i + chunk_size - 1 < Len(words) THEN i + chunk_size - 1 ELSE Len(words)
             chunk == str_join(SubSeq(words, i, hi))
             rest == ChunksFrom(words, i + step, chunk_size, step)
         IN  IF str_strip(chunk) # <<>> THEN <<str_strip(chunk)>> \o rest ELSE rest

\* chunk_text(text, chunk_size, overlap); a negative stride gives an empty
\* range, a zero stride makes range() raise (chunk_text_raises)
chunk_text_raises(chunk_size, overlap) == chunk_size - overlap = 0

\* (mutant) the window advances one word too far
chunk_text_stride_plus_one(text, chunk_size, overlap) ==
    IF chunk_size - overlap < 1 THEN <<>>
    ELSE ChunksFrom(str_split(text), 1, chunk_size, chunk_size - overlap + 1)

chunk_text(text, chunk_size, overlap) ==
    IF chunk_size - overlap < 1 THEN <<>>
    ELSE ChunksFrom(str_split(text), 1, chunk_size, chunk_size - overlap)

\* -------------------------------------------------------- RetrievalEngine
stop_words == {"the", "a", "an", "and", "or", "but", "in", "on", "at", "to",
               "for", "of", "with", "by", "is", "are", "was", "were", "be",
               "been", "being", "have", "has", "had", "do", "does", "did",
               "will", "would", "could", "should"}

\* re.sub(r'[^a-zA-Z0-9\s]', '', tok.lower()) on the tokens of the model
lower_alnum(tok) ==
    CASE tok = IA -> "initialanswer"
      [] tok = GQ -> "gapquestions"
      [] tok = FA -> "finalanswer"
      [] tok = SEMI -> ""
      [] tok = "Beta" -> "beta"
      [] OTHER -> tok

preprocess_text(text) ==
    LET lowered == [i \in DOMAIN text |-> lower_alnum(text[i])]
        words == SelectSeq(lowered, LAMBDA t : t # SP /\ t # "")
    IN  SelectSeq(words, LAMBDA w : w \notin stop_words /\ Len(w) > 2)

\* Counter(words)[w]
word_count(words, w) == Cardinality({i \in DOMAIN words : words[i] = w})

words_of(words) == {words[i] : i \in DOMAIN words}

\* (mutant) the smoothed idf, math.log(n / d) + 1
log_milli_plus_one(n, d) ==
    CASE n = d -> 1000
      [] n = 2 * d -> 1693
      [] n = 3 * d -> 2099
      [] 2 * n = 3 * d -> 1405
      [] n = 4 * d -> 2386
      [] 3 * n = 4 * d -> 1288
      [] 2 * n = 9 * d -> 2504
      [] 8 * n = 9 * d -> 1118

\* math.log(n / d) in thousandths, for the ratios a small chunk set gives
log_milli(n, d) ==
    CASE n = d -> 0
      [] n = 2 * d -> 693
      [] n = 3 * d -> 1099
      [] 2 * n = 3 * d -> 405
      [] n = 4 * d -> 1386
      [] 3 * n = 4 * d -> 288
      [] 2 * n = 9 * d -> 1504
      [] 8 * n = 9 * d -> 118

\* (mutant) every vector ranges over all words of the chunk set, with weight 0
\* for the words the chunk does not hold
calculate_tf_idf_dense(chunks) ==
    LET processed_chunks == [i \in DOMAIN chunks |-> preprocess_text(chunks[i])]
        total_docs == Len(chunks)
        all_words == UNION {words_of(processed_chunks[i]) : i \in DOMAIN chunks}
        df(w) == Cardinality({i \in DOMAIN chunks : w \in words_of(processed_chunks[i])})
    IN  [i \in DOMAIN chunks |->
            LET chunk_words == processed_chunks[i]
                total_words == Len(chunk_words)
            IN  [w \in all_words |->
                    IF w \in words_of(chunk_words)
                    THEN (word_count(chunk_words, w) * log_milli(total_docs, df(w)))
                            \div total_words
                    ELSE 0]]

\* calculate_tf_idf(chunks): the vector of chunk i (key str(i - 1)) at index i
calculate_tf_idf(chunks) ==
    LET processed_chunks == [i \in DOMAIN chunks |-> preprocess_text(chunks[i])]
        total_docs == Len(chunks)
        df(w) == Cardinality({i \in DOMAIN chunks : w \in words_of(processed_chunks[i])})
    IN  [i \in DOMAIN chunks |->
            LET chunk_words == processed_chunks[i]
                total_words == Len(chunk_words)
            IN  [w \in words_of(chunk_words) |->
                    (word_count(chunk_words, w) * log_milli(total_docs, df(w))) \div total_words]]

\* sum(f.values())
RECURSIVE sum_values(_)
sum_values(f) ==
    IF DOMAIN f = {} THEN 0
    ELSE LET x == CHOOSE y \in DOMAIN f : TRUE
         IN  f[x] + sum_values([y \in DOMAIN f \ {x} |-> f[y]])

\* math.sqrt on thousandths squared
isqrt(n) == CHOOSE r \in 0..n : r * r <= n /\ (r + 1) * (r + 1) > n

vec_get(vec, w) == IF w \in DOMAIN vec THEN vec[w] ELSE 0

cosine_similarity(vec1, vec2) ==
    LET all_words == DOMAIN vec1 \cup DOMAIN vec2
        dot_product == sum_values([w \in all_words |-> vec_get(vec1, w) * vec_get(vec2, w)])
        magnitude1 == isqrt(sum_values([w \in DOMAIN vec1 |-> vec1[w] * vec1[w]]))
        magnitude2 == isqrt(sum_values([w \in DOMAIN vec2 |-> vec2[w] * vec2[w]]))
    IN  IF magnitude1 = 0 \/ magnitude2 = 0 THEN 0
        ELSE (dot_product * 1000) \div (magnitude1 * magnitude2)

\* (mutant) the candidates are left in row order
sort_by_score_unsorted(s) == s

\* scored_chunks.sort(key=score, reverse=True): stable, equal scores keep row order
RECURSIVE sort_by_score(_)
sort_by_score(s) ==
    IF s = <<>> THEN <<>>
    ELSE LET x == s[Len(s)]
             sorted == sort_by_score(SubSeq(s, 1, Len(s) - 1))
             n == Cardinality({i \in DOMAIN sorted : sorted[i].score >= x.score})
         IN  SubSeq(sorted, 1, n) \o <<x>> \o SubSeq(sorted, n + 1, Len(sorted))

take(s, k) == SubSeq(s, 1, IF Len(s) < k THEN Len(s) ELSE k)

\* the SELECT of search_chunks: chunk rows joined with their document, in row order
joined_rows(docs, chunk_rows) ==
    SelectSeq(chunk_rows, LAMBDA c : \E i \in DOMAIN docs : docs[i].id = c.document_id)

filename_of(docs, doc_id) ==
    LET i == CHOOSE k \in DOMAIN docs : docs[k].id = doc_id IN docs[i].filename

\* (mutant) the final score is the semantic score alone
score_chunk_semantic_only(docs, query_words, query_tfidf, c) ==
    LET semantic_score == cosine_similarity(query_tfidf, c.tf_idf_vector)
        chunk_words == preprocess_text(c.content)
        keyword_matches == Cardinality({i \in DOMAIN query_words :
                                            query_words[i] \in words_of(chunk_words)})
        keyword_score == IF query_words # <<>>
                         THEN (keyword_matches * 1000) \div Len(query_words) ELSE 0
    IN  [id |-> c.id, content |-> c.content, document_id |-> c.document_id,
         chunk_index |-> c.chunk_index, filename |-> filename_of(docs, c.document_id),
         score |-> semantic_score,
         semantic_score |-> semantic_score, keyword_score |-> keyword_score]

score_chunk(docs, query_words, query_tfidf, c) ==
    LET semantic_score == cosine_similarity(query_tfidf, c.tf_idf_vector)
        chunk_words == preprocess_text(c.content)
        keyword_matches == Cardinality({i \in DOMAIN query_words :
                                            query_words[i] \in words_of(chunk_words)})
        keyword_score == IF query_words # <<>>
                         THEN (keyword_matches * 1000) \div Len(query_words) ELSE 0
    IN  [id |-> c.id, content |-> c.content, document_id |-> c.document_id,
         chunk_index |-> c.chunk_index, filename |-> filename_of(docs, c.document_id),
         score |-> (6 * semantic_score + 4 * keyword_score) \div 10,
         semantic_score |-> semantic_score, keyword_score |-> keyword_score]

\* (mutant) candidates with final score 0 are dropped before the cut
search_chunks_above_zero(docs, chunk_rows, query, top_k) ==
    LET chunks == joined_rows(docs, chunk_rows)
        query_words == preprocess_text(query)
        total_query_words == Len(query_words)
        query_tfidf == [w \in words_of(query_words) |->
                            (word_count(query_words, w) * 1000) \div total_query_words]
        scored_chunks == [i \in DOMAIN chunks |->
                            score_chunk(docs, query_words, query_tfidf, chunks[i])]
    IN  IF chunks = <<>> THEN <<>>
        ELSE take(sort_by_score(SelectSeq(scored_chunks, LAMBDA c : c.score > 0)), top_k)

search_chunks(docs, chunk_rows, query, top_k) ==
    LET chunks == joined_rows(docs, chunk_rows)
        query_words == preprocess_text(query)
        total_query_words == Len(query_words)
        query_tfidf == [w \in words_of(query_words) |->
                            (word_count(query_words, w) * 1000) \div total_query_words]
        scored_chunks == [i \in DOMAIN chunks |->
                            score_chunk(docs, query_words, query_tfidf, chunks[i])]
    IN  IF chunks = <<>> THEN <<>> ELSE take(sort_by_score(scored_chunks), top_k)

\* ------------------------------------------------------------ inputs
\* uploaded files: filename parts (split on "."), the text the bytes hold, and
\* whether the bytes decode (utf-8) or parse (pdf, docx, html) at all
Files == {
    [filename |-> <<"a", "txt">>, text |-> <<"alpha">>, valid |-> TRUE],
    [filename |-> <<"b", "TXT">>, text |-> <<"Beta", SP, "the">>, valid |-> TRUE],
    [filename |-> <<"c", "exe">>, text |-> <<"alpha">>, valid |-> TRUE],
    [filename |-> <<"d", "pdf">>, text |-> <<"alpha">>, valid |-> FALSE],
    [filename |-> <<"e", "txt">>, text |-> <<SP>>, valid |-> TRUE]}

\* a text of CHUNK_SIZE - CHUNK_OVERLAP + 1 words: chunk_text cuts it in two
two_chunk_text ==
    [i \in 1..(2 * (CHUNK_SIZE - CHUNK_OVERLAP + 1) - 1) |->
        IF i % 2 = 0 THEN SP
        ELSE IF i = 2 * (CHUNK_SIZE - CHUNK_OVERLAP + 1) - 1 THEN "gamma" ELSE "alpha"]

\* the files uploaded while requests interleave
\* len(content) of an upload, in bytes; the handler reads the whole body (line
\* 491) and never looks at its length
content_length(f) == IF "bytes" \in DOMAIN f THEN f.bytes ELSE str_len(f.text)

\* a PDF of 11 MB, most of it images, holding one word of text
large_file ==
    [filename |-> <<"large_file", "pdf">>, text |-> <<"gamma">>, valid |-> TRUE,
     bytes |-> 11 * 1024 * 1024]

StoreFiles == {
    [filename |-> <<"a", "txt">>, text |-> <<"alpha">>, valid |-> TRUE],
    [filename |-> <<"long", "txt">>, text |-> two_chunk_text, valid |-> TRUE],
    [filename |-> <<"c", "exe">>, text |-> <<"alpha">>, valid |-> TRUE],
    [filename |-> <<"e", "txt">>, text |-> <<SP>>, valid |-> TRUE]}

\* the files POST /upload-document is checked on, one of each kind
UploadFiles == {
    [filename |-> <<"a", "txt">>, text |-> <<"alpha">>, valid |-> TRUE],
    [filename |-> <<"b", "TXT">>, text |-> <<"Beta", SP, "the">>, valid |-> TRUE],
    [filename |-> <<"c", "exe">>, text |-> <<"alpha">>, valid |-> TRUE],
    [filename |-> <<"d", "pdf">>, text |-> <<"alpha">>, valid |-> FALSE],
    [filename |-> <<"e", "txt">>, text |-> <<SP>>, valid |-> TRUE],
    [filename |-> <<"f", "txt">>, text |-> <<"alpha">>, valid |-> FALSE],
    large_file}

\* a text of 8 * (CHUNK_SIZE - CHUNK_OVERLAP) + 1 words: chunk_text cuts it in
\* nine, and only the last two chunks hold its last word
nine_chunk_text ==
    [i \in 1..(2 * (8 * (CHUNK_SIZE - CHUNK_OVERLAP) + 1) - 1) |->
        IF i % 2 = 0 THEN SP
        ELSE IF i = 2 * (8 * (CHUNK_SIZE - CHUNK_OVERLAP) + 1) - 1 THEN "gamma" ELSE "alpha"]

\* the files the indexed corpora are built from: a one-chunk document, a
\* document of stop words only, and a nine-chunk document
IndexFiles == {
    [filename |-> <<"a", "txt">>, text |-> <<"alpha">>, valid |-> TRUE],
    [filename |-> <<"the", "txt">>, text |-> <<"the", SP, "and">>, valid |-> TRUE],
    [filename |-> <<"nine", "txt">>, text |-> nine_chunk_text, valid |-> TRUE]}

\* queries with one term, with two terms, and with stop words only
IndexQueries == {<<"alpha">>, <<"gamma", SP, "beta">>, <<"the">>}

\* chunk lists calculate_tf_idf is called on: up to MaxChunks of these chunks
ChunkPool == {<<"alpha">>, <<"the">>, <<"alpha", SP, "beta">>,
              <<"alpha", SP, "alpha", SP, "beta">>, <<"beta", SP, "the">>}

ChunkLists == UNION {[1..n -> ChunkPool] : n \in 0..MaxChunks}

\* the files the scorer's corpora are built from
ScorerFiles == {
    [filename |-> <<"a", "txt">>, text |-> <<"alpha">>, valid |-> TRUE],
    [filename |-> <<"b", "TXT">>, text |-> <<"Beta", SP, "the">>, valid |-> TRUE],
    [filename |-> <<"ab", "txt">>, text |-> <<"alpha", SP, "Beta">>, valid |-> TRUE]}

\* request bodies of POST /research
Queries == {<<>>, <<SP>>, <<"alpha", SP>>}

\* what the generation service may answer in round 1 and in round 2
FirstResponses == {
    <<IA, SP, "found", SP, GQ, SP, "alpha", SEMI, SP, "beta", SP>>,
    <<IA, SP, "found", SP, GQ, SP, SEMI, SP>>,
    <<IA, SP, "found", SP>>,
    <<SP, "found">>,
    <<GQ, SP, "beta">>}

FinalResponses == {<<FA, SP, "final", SP>>, <<"final", SP>>}

\* ------------------------------------------------------------- state
VARIABLES
    documents,          \* table documents, in row order
    document_chunks,    \* table document_chunks, in row order
    research_sessions,  \* table research_sessions: id -> row
    uploads,            \* uuid4 source: documents created so far
    chunk_ids,          \* uuid4 source: chunks created so far
    run,                \* the POST /research request: its frame of process_query
    db_lock,            \* the connection holding SQLite's write lock, "" when free
    upload_frame,       \* a POST /upload-document request, statement by statement
    delete_frames,      \* DELETE /documents/{id} requests, statement by statement
    reader,             \* a reading request: search_chunks or get_document_details
    chunk_call,         \* a call of DocumentProcessor.chunk_text
    tfidf_call          \* a call of RetrievalEngine.calculate_tf_idf

\* the requests followed statement by statement
handlerVars == <<db_lock, upload_frame, delete_frames, reader, chunk_call, tfidf_call>>

vars == <<documents, document_chunks, research_sessions, uploads, chunk_ids, run,
          db_lock, upload_frame, delete_frames, reader, chunk_call, tfidf_call>>

NoResponse == [status_code |-> 0]

IdleRun == [pc |-> "idle", request_query |-> <<>>, query |-> <<>>, session_id |-> "",
            step1_chunks |-> <<>>, initial_answer |-> <<>>, gap_questions |-> <<>>,
            gaps_done |-> 0, step3_chunks |-> <<>>, unique_chunks |-> <<>>,
            final_answer |-> <<>>, citations |-> <<>>, error |-> "",
            gen_calls |-> <<>>, gen_responses |-> <<>>, scorer_calls |-> <<>>,
            response |-> NoResponse]

IdleUpload == [pc |-> "idle", rows |-> <<>>, pending_documents |-> <<>>,
               pending_chunks |-> <<>>, response |-> NoResponse]

IdleDelete == [pc |-> "idle", document_id |-> 0, chunk_count |-> 0, response |-> NoResponse]

IdleReader == [pc |-> "idle", op |-> "", top_k |-> 0, response |-> NoResponse]

IdleChunkCall == [pc |-> "idle"]

IdleTfidfCall == [pc |-> "idle"]

\* the database file init_database leaves behind: all tables empty
EmptyStore ==
    /\ documents = <<>>
    /\ document_chunks = <<>>
    /\ research_sessions = <<>>
    /\ uploads = 0
    /\ chunk_ids = 0
    /\ db_lock = ""

NoRequests ==
    /\ run = IdleRun
    /\ upload_frame = IdleUpload
    /\ delete_frames = [r \in DeleteRequests |-> IdleDelete]
    /\ reader = IdleReader
    /\ chunk_call = IdleChunkCall
    /\ tfidf_call = IdleTfidfCall

Init == EmptyStore /\ NoRequests

\* ------------------------------------------------- POST /upload-document
str_lower(tok) == CASE tok = "TXT" -> "txt" [] OTHER -> tok

\* filename.split('.')[-1].lower()
file_type_of(filename) == str_lower(filename[Len(filename)])

\* the extract_text_from_* helpers return "" when the bytes do not parse
extract_text(f) == IF f.valid THEN f.text ELSE <<>>

\* the outcome of the handler up to the INSERTs: the status and the rows to store
index_text(text) ==
    LET chunks == chunk_text(text, CHUNK_SIZE, CHUNK_OVERLAP)
    IN  [chunks |-> chunks, tfidf_vectors |-> calculate_tf_idf(chunks)]

\* the chunks and vectors of each file's text, computed once
indexed == [f \in Files \cup StoreFiles \cup ScorerFiles \cup UploadFiles \cup IndexFiles |-> index_text(extract_text(f))]

\* (mutant) an unknown extension is read as text instead of being rejected
upload_outcome_any_extension(f, document_id, first_chunk_id) ==
    LET file_type == file_type_of(f.filename)
        text == extract_text(f)
        chunks == indexed[f].chunks
        tfidf_vectors == indexed[f].tfidf_vectors
    IN  IF ~f.valid
        THEN [status_code |-> 500, detail |-> "Error processing document"]
        ELSE IF str_strip(text) = <<>>
        THEN [status_code |-> 400, detail |-> "No text content found in file"]
        ELSE [status_code |-> 200,
              document |-> [id |-> document_id, filename |-> f.filename, content |-> text,
                            file_type |-> file_type, chunk_count |-> Len(chunks)],
              chunks |-> [i \in DOMAIN chunks |->
                            [id |-> first_chunk_id + i - 1, document_id |-> document_id,
                             content |-> chunks[i], chunk_index |-> i - 1,
                             word_count |-> Len(str_split(chunks[i])),
                             tf_idf_vector |-> tfidf_vectors[i]]]]

upload_outcome(f, document_id, first_chunk_id) ==
    LET file_type == file_type_of(f.filename)
        text == extract_text(f)
        chunks == indexed[f].chunks
        tfidf_vectors == indexed[f].tfidf_vectors
    IN  IF file_type \notin {"pdf", "docx", "html", "htm", "txt"}
        THEN [status_code |-> 400, detail |-> "Unsupported file format"]
        ELSE IF file_type = "txt" /\ ~f.valid
        THEN [status_code |-> 500, detail |-> "Error processing document"]
        ELSE IF str_strip(text) = <<>>
        THEN [status_code |-> 400, detail |-> "No text content found in file"]
        ELSE [status_code |-> 200,
              document |-> [id |-> document_id, filename |-> f.filename, content |-> text,
                            file_type |-> file_type, chunk_count |-> Len(chunks)],
              chunks |-> [i \in DOMAIN chunks |->
                            [id |-> first_chunk_id + i - 1, document_id |-> document_id,
                             content |-> chunks[i], chunk_index |-> i - 1,
                             word_count |-> Len(str_split(chunks[i])),
                             tf_idf_vector |-> tfidf_vectors[i]]]]

upload_document(f) ==
    /\ uploads < MaxUploads
    /\ LET out == upload_outcome(f, uploads + 1, chunk_ids + 1)
       IN  IF out.status_code = 200
           THEN /\ documents' = Append(documents, out.document)
                /\ document_chunks' = document_chunks \o out.chunks
                /\ uploads' = uploads + 1
                /\ chunk_ids' = chunk_ids + Len(out.chunks)
           ELSE UNCHANGED <<documents, document_chunks, uploads, chunk_ids>>
    /\ UNCHANGED <<research_sessions, run>>

\* ------------------------------------------- DELETE /documents/{id}
\* (mutant) the DELETE of the document row is left out
delete_document_chunks_only(document_id) ==
    /\ IF \E i \in DOMAIN documents : documents[i].id = document_id
       THEN /\ document_chunks' = SelectSeq(document_chunks,
                                            LAMBDA c : c.document_id # document_id)
            /\ UNCHANGED documents
       ELSE UNCHANGED <<documents, document_chunks>>
    /\ UNCHANGED <<research_sessions, uploads, chunk_ids, run>>

delete_document(document_id) ==
    /\ IF \E i \in DOMAIN documents : documents[i].id = document_id
       THEN /\ document_chunks' = SelectSeq(document_chunks,
                                            LAMBDA c : c.document_id # document_id)
            /\ documents' = SelectSeq(documents, LAMBDA d : d.id # document_id)
       ELSE UNCHANGED <<documents, document_chunks>>
    /\ UNCHANGED <<research_sessions, uploads, chunk_ids, run>>

\* ------------------------------------------------- DELETE /documents
delete_all_documents ==
    /\ document_chunks' = <<>>
    /\ documents' = <<>>
    /\ research_sessions' = <<>>
    /\ UNCHANGED <<uploads, chunk_ids, run>>

\* ------------------------------------------- RAGPipeline.process_query
TOP_K_INITIAL == 8
TOP_K_GAP == 5
EXCERPT_CHARS == 200

\* session_id = str(uuid.uuid4())
SESSION_ID == "session-1"

NO_DOCUMENTS == <<"No documents found. Please upload some documents first.">>

\* the exceptions a step may raise, as str(e)
GENERATION_ERROR == "generation service error"
DATABASE_ERROR == "database error"

\* (mutant) the gap text taken from parts[-1], whether or not the label was found
parse_first_response_last_part(first_response) ==
    IF str_in(IA, first_response)
    THEN LET parts == str_split_on(first_response, GQ)
             segments == str_split_on(str_strip(str_replace(parts[Len(parts)], IA)), SEMI)
             kept == SelectSeq(segments, LAMBDA q : str_strip(q) # <<>>)
         IN  [initial_answer |-> str_strip(str_replace(parts[1], IA)),
              gap_questions |-> [i \in DOMAIN kept |-> str_strip(kept[i])]]
    ELSE [initial_answer |-> <<>>, gap_questions |-> <<>>]

\* parsing of the first response into (initial_answer, gap_questions)
parse_first_response(first_response) ==
    IF str_in(IA, first_response)
    THEN LET parts == str_split_on(first_response, GQ)
             segments == IF Len(parts) > 1
                         THEN str_split_on(str_strip(parts[2]), SEMI) ELSE <<>>
             kept == SelectSeq(segments, LAMBDA q : str_strip(q) # <<>>)
         IN  [initial_answer |-> str_strip(str_replace(parts[1], IA)),
              gap_questions |-> [i \in DOMAIN kept |-> str_strip(kept[i])]]
    ELSE [initial_answer |-> <<>>, gap_questions |-> <<>>]

\* (mutant) the response is stripped whether or not it holds the label
parse_final_response_always_strip(final_response) ==
    str_strip(str_replace(final_response, FA))

\* the final answer: the label removed and the text stripped when the label is there
parse_final_response(final_response) ==
    IF str_in(FA, final_response)
    THEN str_strip(str_replace(final_response, FA))
    ELSE final_response

\* (mutant) the dedup loop keeping the last occurrence of each id
RECURSIVE remove_duplicates_keep_last(_, _, _)
remove_duplicates_keep_last(all_chunks, unique_chunks, seen_ids) ==
    IF all_chunks = <<>> THEN unique_chunks
    ELSE LET chunk == Head(all_chunks)
             later == {Tail(all_chunks)[i].id : i \in DOMAIN Tail(all_chunks)}
         IN  IF chunk.id \notin later
             THEN remove_duplicates_keep_last(Tail(all_chunks), Append(unique_chunks, chunk),
                                              seen_ids)
             ELSE remove_duplicates_keep_last(Tail(all_chunks), unique_chunks, seen_ids)

\* "Remove duplicates and combine chunks": first occurrence of each id, in order
RECURSIVE remove_duplicates(_, _, _)
remove_duplicates(all_chunks, unique_chunks, seen_ids) ==
    IF all_chunks = <<>> THEN unique_chunks
    ELSE LET chunk == Head(all_chunks)
         IN  IF chunk.id \notin seen_ids
             THEN remove_duplicates(Tail(all_chunks), Append(unique_chunks, chunk),
                                    seen_ids \cup {chunk.id})
             ELSE remove_duplicates(Tail(all_chunks), unique_chunks, seen_ids)

\* content[:n], cut at a token boundary
RECURSIVE take_chars(_, _)
take_chars(s, n) ==
    IF Len(s) = 0 THEN <<>>
    ELSE IF Len(s) = 1 THEN (IF Len(s[1]) > n THEN <<>> ELSE s)
    ELSE LET left == SubSeq(s, 1, Len(s) \div 2)
             right == SubSeq(s, Len(s) \div 2 + 1, Len(s))
         IN  IF str_len(left) > n THEN take_chars(left, n)
             ELSE left \o take_chars(right, n - str_len(left))

excerpt(content) ==
    IF str_len(content) > EXCERPT_CHARS
    THEN take_chars(content, EXCERPT_CHARS) \o <<"...">>
    ELSE content

create_citations(unique_chunks) ==
    [i \in DOMAIN unique_chunks |->
        [id |-> unique_chunks[i].id, source_number |-> i,
         filename |-> unique_chunks[i].filename,
         content |-> excerpt(unique_chunks[i].content),
         score |-> unique_chunks[i].score]]

\* the two prompts, by what they carry
first_generation_prompt(query, step1_chunks) ==
    [max_tokens |-> 1000, query |-> query,
     context |-> [i \in DOMAIN step1_chunks |->
                    [source |-> i, content |-> step1_chunks[i].content]]]

final_generation_prompt(query, initial_answer, unique_chunks) ==
    [max_tokens |-> 1500, query |-> query, initial_answer |-> initial_answer,
     context |-> [i \in DOMAIN unique_chunks |->
                    [source |-> i, filename |-> unique_chunks[i].filename,
                     content |-> unique_chunks[i].content]]]

chunk_id_list(chunks) == [i \in DOMAIN chunks |-> chunks[i].id]

\* the row written on completion, and the one written by the except branch
completed_session(f) ==
    [id |-> f.session_id, query |-> f.query, status |-> "completed",
     step1_chunks |-> chunk_id_list(f.step1_chunks), step1_answer |-> f.initial_answer,
     gap_questions |-> f.gap_questions, step3_chunks |-> chunk_id_list(f.step3_chunks),
     final_answer |-> f.final_answer, citations |-> f.citations]

failed_session(f) == [id |-> f.session_id, query |-> f.query, status |-> "failed"]

\* steps 3b-4a: deduplicate, build the final prompt and call the service
start_final_generation(f) ==
    LET unique_chunks == remove_duplicates(f.step1_chunks \o f.step3_chunks, <<>>, {})
    IN  [f EXCEPT !.pc = "Generating2",
                  !.unique_chunks = unique_chunks,
                  !.gen_calls = Append(@, final_generation_prompt(f.query, f.initial_answer,
                                                                   unique_chunks))]

\* leave the try block with exception e
raise(f, e) == [f EXCEPT !.pc = "except", !.error = e]

\* research_query's answers
failed_response(f, result) ==
    [status_code |-> 200, session_id |-> f.session_id, query |-> f.request_query,
     status |-> "failed", step1_answer |-> <<>>, gap_questions |-> <<>>,
     final_answer |-> result, citations |-> <<>>, timeline |-> <<>>]

completed_response(f) ==
    [status_code |-> 200, session_id |-> f.session_id, query |-> f.query,
     status |-> "completed", step1_answer |-> f.initial_answer,
     gap_questions |-> f.gap_questions, final_answer |-> f.final_answer,
     citations |-> f.citations,
     timeline |-> <<Len(f.step1_chunks), Len(f.gap_questions), Len(f.step3_chunks),
                    Len(f.citations), Len(f.unique_chunks)>>]

http_error(code, detail) == [status_code |-> code, detail |-> detail]

StoreUnchanged == UNCHANGED <<documents, document_chunks, research_sessions, uploads, chunk_ids>>

\* POST /research: validation, then process_query up to its first await
research_query(q) ==
    /\ run.pc = "idle"
    /\ IF str_strip(q) = <<>>
       THEN run' = [run EXCEPT !.pc = "done", !.request_query = q,
                                   !.response = http_error(400, "Query cannot be empty")]
       ELSE run' = [run EXCEPT !.pc = "Retrieving1", !.request_query = q,
                                   !.query = str_strip(q), !.session_id = SESSION_ID]
    /\ StoreUnchanged

\* (mutant) step 1 without the "if not step1_chunks" return
InitialRetrieval_unchecked ==
    /\ run.pc = "Retrieving1"
    /\ LET step1_chunks == search_chunks(documents, document_chunks, run.query, TOP_K_INITIAL)
       IN  run' = [run EXCEPT !.pc = "Generating1",
                      !.step1_chunks = step1_chunks,
                      !.scorer_calls = Append(@, [query |-> run.query, top_k |-> TOP_K_INITIAL,
                                                  result |-> chunk_id_list(step1_chunks)]),
                      !.gen_calls = Append(@, first_generation_prompt(run.query, step1_chunks))]
    /\ StoreUnchanged

\* Step 1: the initial retrieval returns; on evidence, the first generation call is made
InitialRetrieval ==
    /\ run.pc = "Retrieving1"
    /\ LET f == run
           step1_chunks == search_chunks(documents, document_chunks, f.query, TOP_K_INITIAL)
           g == [f EXCEPT !.scorer_calls = Append(@, [query |-> f.query, top_k |-> TOP_K_INITIAL,
                                                      result |-> chunk_id_list(step1_chunks)])]
       IN  IF step1_chunks = <<>>
           THEN run' = [g EXCEPT !.pc = "done",
                                 !.response = failed_response(f, NO_DOCUMENTS)]
           ELSE run' = [g EXCEPT !.pc = "Generating1",
                             !.step1_chunks = step1_chunks,
                             !.gen_calls = Append(@, first_generation_prompt(f.query, step1_chunks))]
    /\ StoreUnchanged

\* (mutant) a retrieval that raises sends the run back to its first step
RetrievalFails_restart ==
    /\ run.pc \in {"Retrieving1", "Retrieving2"}
    /\ run' = IF run.pc = "Retrieving2"
              THEN [run EXCEPT !.pc = "Retrieving1"]
              ELSE raise(run, DATABASE_ERROR)
    /\ StoreUnchanged

\* a retrieval (step 1 or step 3) raises
RetrievalFails ==
    /\ run.pc \in {"Retrieving1", "Retrieving2"}
    /\ run' = raise(run, DATABASE_ERROR)
    /\ StoreUnchanged

\* (mutant) the final generation is started as soon as the first response is
\* parsed, without waiting for the gap retrievals
FirstGeneration_eager(first_response) ==
    /\ run.pc = "Generating1"
    /\ LET parsed == parse_first_response(first_response)
       IN  run' = start_final_generation(
                      [run EXCEPT !.gen_responses = Append(@, first_response),
                                  !.initial_answer = parsed.initial_answer,
                                  !.gap_questions = parsed.gap_questions])
    /\ StoreUnchanged

\* Step 2: the first response arrives and is parsed
FirstGeneration(first_response) ==
    /\ run.pc = "Generating1"
    /\ LET parsed == parse_first_response(first_response)
           g == [run EXCEPT !.gen_responses = Append(@, first_response),
                            !.initial_answer = parsed.initial_answer,
                            !.gap_questions = parsed.gap_questions]
       IN  run' = IF parsed.gap_questions # <<>>
                  THEN [g EXCEPT !.pc = "Retrieving2"]
                  ELSE start_final_generation(g)
    /\ StoreUnchanged

\* (mutant) a failure of the second generation call is swallowed: the run goes
\* on to save with an empty final answer
GenerationFails_swallowed ==
    /\ run.pc \in {"Generating1", "Generating2"}
    /\ run' = IF run.pc = "Generating2"
              THEN [run EXCEPT !.pc = "Saving", !.error = GENERATION_ERROR,
                               !.citations = create_citations(run.unique_chunks)]
              ELSE raise(run, GENERATION_ERROR)
    /\ StoreUnchanged

\* (mutant) a failed generation call is retried once
GenerationFails_retry ==
    /\ run.pc \in {"Generating1", "Generating2"}
    /\ run' = IF Len(run.gen_calls) < 3
              THEN [run EXCEPT !.gen_calls = Append(@, @[Len(@)])]
              ELSE raise(run, GENERATION_ERROR)
    /\ StoreUnchanged

\* a generation call (round 1 or 2) raises
GenerationFails ==
    /\ run.pc \in {"Generating1", "Generating2"}
    /\ run' = raise(run, GENERATION_ERROR)
    /\ StoreUnchanged

\* (mutant) the gap loop breaks at the first gap without results
GapRetrieval_break_on_empty ==
    /\ run.pc = "Retrieving2"
    /\ LET f == run
           gap_question == f.gap_questions[f.gaps_done + 1]
           additional_chunks == search_chunks(documents, document_chunks, gap_question, TOP_K_GAP)
           g == [f EXCEPT !.gaps_done = @ + 1,
                          !.step3_chunks = @ \o additional_chunks,
                          !.scorer_calls = Append(@, [query |-> gap_question, top_k |-> TOP_K_GAP,
                                                      result |-> chunk_id_list(additional_chunks)])]
       IN  run' = IF g.gaps_done < Len(g.gap_questions) /\ additional_chunks # <<>>
                  THEN g ELSE start_final_generation(g)
    /\ StoreUnchanged

\* (mutant) the gap retrieval ranks the rows step 1 has read, not the table
GapRetrieval_from_step1_rows ==
    /\ run.pc = "Retrieving2"
    /\ LET f == run
           gap_question == f.gap_questions[f.gaps_done + 1]
           additional_chunks == take(f.step1_chunks, TOP_K_GAP)
           g == [f EXCEPT !.gaps_done = @ + 1,
                          !.step3_chunks = @ \o additional_chunks,
                          !.scorer_calls = Append(@, [query |-> gap_question, top_k |-> TOP_K_GAP,
                                                      result |-> chunk_id_list(additional_chunks)])]
       IN  run' = IF g.gaps_done < Len(g.gap_questions)
                  THEN g ELSE start_final_generation(g)
    /\ StoreUnchanged

\* Step 3: the retrieval for the next gap question returns
GapRetrieval ==
    /\ run.pc = "Retrieving2"
    /\ LET f == run
           gap_question == f.gap_questions[f.gaps_done + 1]
           additional_chunks == search_chunks(documents, document_chunks, gap_question, TOP_K_GAP)
           g == [f EXCEPT !.gaps_done = @ + 1,
                          !.step3_chunks = @ \o additional_chunks,
                          !.scorer_calls = Append(@, [query |-> gap_question, top_k |-> TOP_K_GAP,
                                                      result |-> chunk_id_list(additional_chunks)])]
       IN  run' = IF g.gaps_done < Len(g.gap_questions)
                  THEN g ELSE start_final_generation(g)
    /\ StoreUnchanged

\* Step 4: the final response arrives; the citations are built
FinalGeneration(final_response) ==
    /\ run.pc = "Generating2"
    /\ run' = [run EXCEPT !.pc = "Saving",
                     !.gen_responses = Append(@, final_response),
                     !.final_answer = parse_final_response(final_response),
                     !.citations = create_citations(run.unique_chunks)]
    /\ StoreUnchanged

\* "Save session to database" commits, and process_query returns its result
SaveSession ==
    /\ run.pc = "Saving"
    /\ research_sessions' = (run.session_id :> completed_session(run)) @@ research_sessions
    /\ run' = [run EXCEPT !.pc = "done",
                     !.response = completed_response(run)]
    /\ UNCHANGED <<documents, document_chunks, uploads, chunk_ids>>

\* "Save session to database" raises; nothing is committed
SaveSessionFails ==
    /\ run.pc = "Saving"
    /\ run' = raise(run, DATABASE_ERROR)
    /\ StoreUnchanged

\* the except branch: the failed session is written and the error text returned
SaveFailedSession ==
    /\ run.pc = "except"
    /\ research_sessions' = (run.session_id :> failed_session(run)) @@ research_sessions
    /\ run' = [run EXCEPT !.pc = "done",
                     !.response = failed_response(run, <<"Error processing query: ",
                                                            run.error>>)]
    /\ UNCHANGED <<documents, document_chunks, uploads, chunk_ids>>

\* the except branch's own INSERT raises: the exception leaves process_query and
\* research_query answers 500
SaveFailedSessionFails ==
    /\ run.pc = "except"
    /\ run' = [run EXCEPT !.pc = "done",
                     !.response = http_error(500, "Error processing research")]
    /\ StoreUnchanged

\* GET /research/{session_id}
get_research_session(session_id) ==
    IF session_id \notin DOMAIN research_sessions
    THEN http_error(404, "Research session not found")
    ELSE LET session == research_sessions[session_id]
             column(name) == IF name \in DOMAIN session THEN session[name] ELSE <<>>
         IN  [status_code |-> 200, session_id |-> session.id, query |-> session.query,
              status |-> session.status, step1_answer |-> column("step1_answer"),
              gap_questions |-> column("gap_questions"),
              final_answer |-> column("final_answer"),
              citations |-> column("citations"), timeline |-> <<>>]

\* ------------------------------------------------------ specification
Next ==
    \/ \E f \in Files : upload_document(f) /\ UNCHANGED handlerVars
    \/ \E d \in 1..MaxUploads : delete_document(d) /\ UNCHANGED handlerVars
    \/ delete_all_documents /\ UNCHANGED handlerVars
    \/ \E q \in Queries : research_query(q) /\ UNCHANGED handlerVars
    \/ InitialRetrieval /\ UNCHANGED handlerVars
    \/ RetrievalFails /\ UNCHANGED handlerVars
    \/ \E resp \in FirstResponses : FirstGeneration(resp) /\ UNCHANGED handlerVars
    \/ GenerationFails /\ UNCHANGED handlerVars
    \/ GapRetrieval /\ UNCHANGED handlerVars
    \/ \E resp \in FinalResponses : FinalGeneration(resp) /\ UNCHANGED handlerVars
    \/ SaveSession /\ UNCHANGED handlerVars
    \/ SaveSessionFails /\ UNCHANGED handlerVars
    \/ SaveFailedSession /\ UNCHANGED handlerVars
    \/ SaveFailedSessionFails /\ UNCHANGED handlerVars

Spec == Init /\ [][Next]_vars

\* a step of the POST /research request: the call it awaits returns or raises
RunStep ==
    \/ RetrievalFails /\ UNCHANGED handlerVars
    \/ GenerationFails /\ UNCHANGED handlerVars
    \/ SaveSessionFails /\ UNCHANGED handlerVars
    \/ SaveFailedSessionFails /\ UNCHANGED handlerVars
    \/ InitialRetrieval /\ UNCHANGED handlerVars
    \/ \E resp \in FirstResponses : FirstGeneration(resp) /\ UNCHANGED handlerVars
    \/ GapRetrieval /\ UNCHANGED handlerVars
    \/ \E resp \in FinalResponses : FinalGeneration(resp) /\ UNCHANGED handlerVars
    \/ SaveSession /\ UNCHANGED handlerVars
    \/ SaveFailedSession /\ UNCHANGED handlerVars

\* every awaited call of the request returns or raises in the end: the event
\* loop resumes the coroutine when the call does
LiveSpec == Spec /\ WF_vars(RunStep)

\* ============================================================================
\* The document store under concurrent requests.  Every handler opens its own
\* connection (aiosqlite.connect) and awaits each statement, so handlers
\* interleave statement by statement.  SQLite gives each statement a
\* consistent view of the committed rows; the rows a connection has written
\* stay private to it until its commit, and one connection at a time holds
\* the write lock (db_lock) from its first write to its commit or rollback.
\* ============================================================================

\* ------------------------------------ POST /upload-document, by statement
\* lines 491-526: the checks, the chunking and the indexing, then the INSERT
\* of the document row, which opens the transaction and takes the write lock
\* (mutant) the document row is committed by its own INSERT
upload_document_begin_autocommit(f) ==
    /\ upload_frame.pc \in {"idle", "done"}
    /\ uploads < MaxUploads
    /\ LET out == upload_outcome(f, uploads + 1, chunk_ids + 1)
       IN  IF out.status_code # 200
           THEN /\ upload_frame' = [IdleUpload EXCEPT !.pc = "done", !.response = out]
                /\ UNCHANGED <<documents, uploads, chunk_ids, db_lock>>
           ELSE /\ db_lock = ""
                /\ db_lock' = "upload"
                /\ documents' = Append(documents, out.document)
                /\ upload_frame' = [IdleUpload EXCEPT !.pc = "Inserting", !.rows = out.chunks]
                /\ uploads' = uploads + 1
                /\ chunk_ids' = chunk_ids + Len(out.chunks)
    /\ UNCHANGED <<document_chunks, research_sessions, run, delete_frames, reader,
                   chunk_call, tfidf_call>>

upload_document_begin(f) ==
    /\ upload_frame.pc \in {"idle", "done"}
    /\ uploads < MaxUploads
    /\ LET out == upload_outcome(f, uploads + 1, chunk_ids + 1)
       IN  IF out.status_code # 200
           THEN /\ upload_frame' = [IdleUpload EXCEPT !.pc = "done", !.response = out]
                /\ UNCHANGED <<uploads, chunk_ids, db_lock>>
           ELSE /\ db_lock = ""
                /\ db_lock' = "upload"
                /\ upload_frame' = [IdleUpload EXCEPT !.pc = "Inserting",
                                                      !.rows = out.chunks,
                                                      !.pending_documents = <<out.document>>]
                /\ uploads' = uploads + 1
                /\ chunk_ids' = chunk_ids + Len(out.chunks)
    /\ UNCHANGED <<documents, document_chunks, research_sessions, run, delete_frames,
                   reader, chunk_call, tfidf_call>>

\* lines 529-538: one INSERT of a chunk row, inside the transaction
upload_document_insert_chunk ==
    /\ upload_frame.pc = "Inserting"
    /\ Len(upload_frame.pending_chunks) < Len(upload_frame.rows)
    /\ upload_frame' = [upload_frame EXCEPT !.pending_chunks =
                            Append(@, upload_frame.rows[Len(@) + 1])]
    /\ UNCHANGED <<documents, document_chunks, research_sessions, uploads, chunk_ids, run,
                   db_lock, delete_frames, reader, chunk_call, tfidf_call>>

\* lines 540-547: the commit publishes the document row and its chunk rows
upload_document_commit ==
    /\ upload_frame.pc = "Inserting"
    /\ Len(upload_frame.pending_chunks) = Len(upload_frame.rows)
    /\ documents' = documents \o upload_frame.pending_documents
    /\ document_chunks' = document_chunks \o upload_frame.pending_chunks
    /\ db_lock' = ""
    /\ upload_frame' = [IdleUpload EXCEPT
            !.pc = "done",
            !.response = [status_code |-> 200,
                          document_id |-> upload_frame.rows[1].document_id,
                          chunk_count |-> Len(upload_frame.rows)]]
    /\ UNCHANGED <<research_sessions, uploads, chunk_ids, run, delete_frames, reader,
                   chunk_call, tfidf_call>>

\* lines 551-553: a statement raises; the connection closes without a commit,
\* which rolls the transaction back
upload_document_raises ==
    /\ upload_frame.pc = "Inserting"
    /\ db_lock' = ""
    /\ upload_frame' = [IdleUpload EXCEPT
            !.pc = "done", !.response = http_error(500, "Error processing document")]
    /\ UNCHANGED <<documents, document_chunks, research_sessions, uploads, chunk_ids, run,
                   delete_frames, reader, chunk_call, tfidf_call>>

\* ---------------------------------- DELETE /documents/{id}, by statement
\* lines 561-569: the SELECT of the document row
\* (mutant) the "if not document" check is left out
delete_document_select_found(r, document_id) ==
    /\ delete_frames[r].pc \in {"idle", "done"}
    /\ delete_frames' = [delete_frames EXCEPT ![r] =
            LET rows == SelectSeq(documents, LAMBDA d : d.id = document_id)
            IN  [IdleDelete EXCEPT !.pc = "Deleting", !.document_id = document_id,
                                   !.chunk_count = IF rows = <<>> THEN 0
                                                   ELSE rows[1].chunk_count]]
    /\ UNCHANGED <<documents, document_chunks, research_sessions, uploads, chunk_ids, run,
                   db_lock, upload_frame, reader, chunk_call, tfidf_call>>

delete_document_select(r, document_id) ==
    /\ delete_frames[r].pc \in {"idle", "done"}
    /\ delete_frames' = [delete_frames EXCEPT ![r] =
            LET rows == SelectSeq(documents, LAMBDA d : d.id = document_id)
            IN  IF rows = <<>>
                THEN [IdleDelete EXCEPT !.pc = "done", !.document_id = document_id,
                                        !.response = http_error(404, "Document not found")]
                ELSE [IdleDelete EXCEPT !.pc = "Deleting", !.document_id = document_id,
                                        !.chunk_count = rows[1].chunk_count]]
    /\ UNCHANGED <<documents, document_chunks, research_sessions, uploads, chunk_ids, run,
                   db_lock, upload_frame, reader, chunk_call, tfidf_call>>

\* (mutant) the DELETE of the chunk rows is left out
delete_document_commit_document_only(r) ==
    /\ delete_frames[r].pc = "Deleting"
    /\ db_lock = ""
    /\ documents' = SelectSeq(documents, LAMBDA d : d.id # delete_frames[r].document_id)
    /\ delete_frames' = [delete_frames EXCEPT ![r] =
            [@ EXCEPT !.pc = "done",
                      !.response = [status_code |-> 200,
                                    deleted_document_id |-> delete_frames[r].document_id,
                                    deleted_chunks |-> delete_frames[r].chunk_count]]]
    /\ UNCHANGED <<document_chunks, research_sessions, uploads, chunk_ids, run, db_lock,
                   upload_frame, reader, chunk_call, tfidf_call>>

\* lines 571-587: the two DELETEs and the commit; the first DELETE takes the
\* write lock, so the rows removed are those stored when it runs
delete_document_commit(r) ==
    /\ delete_frames[r].pc = "Deleting"
    /\ db_lock = ""
    /\ document_chunks' = SelectSeq(document_chunks,
                                    LAMBDA c : c.document_id # delete_frames[r].document_id)
    /\ documents' = SelectSeq(documents, LAMBDA d : d.id # delete_frames[r].document_id)
    /\ delete_frames' = [delete_frames EXCEPT ![r] =
            [@ EXCEPT !.pc = "done",
                      !.response = [status_code |-> 200,
                                    deleted_document_id |-> delete_frames[r].document_id,
                                    deleted_chunks |-> delete_frames[r].chunk_count]]]
    /\ UNCHANGED <<research_sessions, uploads, chunk_ids, run, db_lock, upload_frame,
                   reader, chunk_call, tfidf_call>>

\* lines 591-593: a statement raises (the database stays locked too long)
delete_document_raises(r) ==
    /\ delete_frames[r].pc = "Deleting"
    /\ delete_frames' = [delete_frames EXCEPT ![r] =
            [@ EXCEPT !.pc = "done",
                      !.response = http_error(500, "Error deleting document")]]
    /\ UNCHANGED <<documents, document_chunks, research_sessions, uploads, chunk_ids, run,
                   db_lock, upload_frame, reader, chunk_call, tfidf_call>>

\* ------------------------------------------------------------ readers
\* a request that searches: the SELECT of search_chunks sees the committed rows
search_chunks_begin(q, top_k) ==
    /\ reader.pc \in {"idle", "done"}
    /\ reader' = [IdleReader EXCEPT !.pc = "Searching", !.op = q, !.top_k = top_k]
    /\ UNCHANGED <<documents, document_chunks, research_sessions, uploads, chunk_ids, run,
                   db_lock, upload_frame, delete_frames, chunk_call, tfidf_call>>

search_chunks_select ==
    /\ reader.pc = "Searching"
    /\ reader' = [reader EXCEPT
            !.pc = "done",
            !.response = [status_code |-> 200,
                          chunks |-> search_chunks(documents, document_chunks, reader.op,
                                                   reader.top_k)]]
    /\ UNCHANGED <<documents, document_chunks, research_sessions, uploads, chunk_ids, run,
                   db_lock, upload_frame, delete_frames, chunk_call, tfidf_call>>

PREVIEW_CHARS == 500

\* ORDER BY chunk_index
RECURSIVE order_by_chunk_index(_)
order_by_chunk_index(s) ==
    IF s = <<>> THEN <<>>
    ELSE LET x == s[Len(s)]
             sorted == order_by_chunk_index(SubSeq(s, 1, Len(s) - 1))
             n == Cardinality({i \in DOMAIN sorted : sorted[i].chunk_index <= x.chunk_index})
         IN  SubSeq(sorted, 1, n) \o <<x>> \o SubSeq(sorted, n + 1, Len(sorted))

\* GET /documents/{id}, lines 719-726: the SELECT of the document row
get_document_details_select_document(document_id) ==
    /\ reader.pc \in {"idle", "done"}
    /\ reader' =
            LET rows == SelectSeq(documents, LAMBDA d : d.id = document_id)
            IN  IF rows = <<>>
                THEN [IdleReader EXCEPT !.pc = "done", !.op = document_id,
                                        !.response = http_error(404, "Document not found")]
                ELSE [IdleReader EXCEPT !.pc = "ReadChunks", !.op = document_id,
                                        !.response = [status_code |-> 0,
                                                      document |-> rows[1]]]
    /\ UNCHANGED <<documents, document_chunks, research_sessions, uploads, chunk_ids, run,
                   db_lock, upload_frame, delete_frames, chunk_call, tfidf_call>>

\* lines 729-752: the SELECT of the chunk rows and the response
get_document_details_select_chunks ==
    /\ reader.pc = "ReadChunks"
    /\ reader' =
            LET document == reader.response.document
                chunks == order_by_chunk_index(
                              SelectSeq(document_chunks,
                                        LAMBDA c : c.document_id = reader.op))
            IN  [reader EXCEPT
                    !.pc = "done",
                    !.response =
                        [status_code |-> 200, id |-> document.id,
                         filename |-> document.filename,
                         file_type |-> document.file_type,
                         chunk_count |-> document.chunk_count,
                         content_preview |->
                            IF str_len(document.content) > PREVIEW_CHARS
                            THEN take_chars(document.content, PREVIEW_CHARS) \o <<"...">>
                            ELSE document.content,
                         chunks |-> [i \in DOMAIN chunks |->
                                        [id |-> chunks[i].id, content |-> chunks[i].content,
                                         chunk_index |-> chunks[i].chunk_index,
                                         word_count |-> chunks[i].word_count]]]]
    /\ UNCHANGED <<documents, document_chunks, research_sessions, uploads, chunk_ids, run,
                   db_lock, upload_frame, delete_frames, chunk_call, tfidf_call>>

\* the writers: uploads and deletions, statement by statement
StoreNext ==
    \/ \E f \in StoreFiles : upload_document_begin(f)
    \/ upload_document_insert_chunk
    \/ upload_document_commit
    \/ upload_document_raises
    \/ \E r \in DeleteRequests, d \in 1..MaxUploads : delete_document_select(r, d)
    \/ \E r \in DeleteRequests : delete_document_commit(r)
    \/ \E r \in DeleteRequests : delete_document_raises(r)
    \/ db_lock = "" /\ delete_all_documents /\ UNCHANGED handlerVars

StoreSpec == Init /\ [][StoreNext]_vars

\* the readers against uploads in progress and whole deletions
ReadNext ==
    \/ \E f \in StoreFiles : upload_document_begin(f)
    \/ upload_document_insert_chunk
    \/ upload_document_commit
    \/ upload_document_raises
    \/ \E d \in 1..MaxUploads : db_lock = "" /\ delete_document(d) /\ UNCHANGED handlerVars
    \/ db_lock = "" /\ delete_all_documents /\ UNCHANGED handlerVars
    \/ \E q \in Queries : search_chunks_begin(q, TOP_K_INITIAL)
    \/ search_chunks_select
    \/ \E d \in 1..MaxUploads : get_document_details_select_document(d)
    \/ get_document_details_select_chunks

ReadSpec == Init /\ [][ReadNext]_vars

\* uploads of files of every kind, with whole deletions and GET /documents/{id}
\* in between
UploadNext ==
    \/ \E f \in UploadFiles : upload_document_begin(f)
    \/ upload_document_insert_chunk
    \/ upload_document_commit
    \/ upload_document_raises
    \/ \E d \in 1..MaxUploads : db_lock = "" /\ delete_document(d) /\ UNCHANGED handlerVars
    \/ db_lock = "" /\ delete_all_documents /\ UNCHANGED handlerVars
    \/ \E d \in 1..MaxUploads : get_document_details_select_document(d)
    \/ get_document_details_select_chunks

UploadSpec == Init /\ [][UploadNext]_vars

\* DELETE /documents/{id} requests that interleave with each other and with
\* uploads, statement by statement
ConcurrentDeleteRequests == 1..MaxConcurrentDeletes

DeleteInit ==
    /\ EmptyStore
    /\ run = IdleRun
    /\ upload_frame = IdleUpload
    /\ delete_frames = [r \in ConcurrentDeleteRequests |-> IdleDelete]
    /\ reader = IdleReader
    /\ chunk_call = IdleChunkCall
    /\ tfidf_call = IdleTfidfCall

DeleteNext ==
    \/ \E f \in StoreFiles : upload_document_begin(f)
    \/ upload_document_insert_chunk
    \/ upload_document_commit
    \/ upload_document_raises
    \/ \E r \in ConcurrentDeleteRequests, d \in 1..MaxUploads : delete_document_select(r, d)
    \/ \E r \in ConcurrentDeleteRequests : delete_document_commit(r)
    \/ \E r \in ConcurrentDeleteRequests : delete_document_raises(r)

DeleteSpec == DeleteInit /\ [][DeleteNext]_vars

\* ============================================================================
\* The scorer over corpora built by uploads.  Chunk ids are uuid4 values
\* (line 530): any unused value, in no relation to the order of insertion.
\* ============================================================================
ScorerQueries == {<<"alpha", SP, "beta">>, <<"the">>}

\* POST /upload-document as a whole, the chunk ids drawn from the unused ones
upload_document_uuid(f, first_chunk_id) ==
    /\ uploads < MaxUploads
    /\ LET out == upload_outcome(f, uploads + 1, first_chunk_id)
       IN  /\ out.status_code = 200
           /\ \A i \in DOMAIN out.chunks :
                    /\ out.chunks[i].id <= MaxChunkId
                    /\ \A j \in DOMAIN document_chunks :
                            document_chunks[j].id # out.chunks[i].id
           /\ documents' = Append(documents, out.document)
           /\ document_chunks' = document_chunks \o out.chunks
           /\ uploads' = uploads + 1
    /\ UNCHANGED <<research_sessions, chunk_ids, run, db_lock, upload_frame, delete_frames,
                   reader, chunk_call, tfidf_call>>

ScorerNext ==
    \/ \E f \in ScorerFiles, id \in 1..MaxChunkId : upload_document_uuid(f, id)
    \/ \E q \in ScorerQueries, k \in 0..MaxTopK : search_chunks_begin(q, k)
    \/ search_chunks_select

ScorerSpec == Init /\ [][ScorerNext]_vars

\* ============================================================================
\* DocumentProcessor.chunk_text as a function of its three arguments.
\* ============================================================================
\* the texts of up to MaxTextLen tokens over two words and whitespace
ChunkTexts == UNION {[1..n -> {SP, "a", "b"}] : n \in 0..MaxTextLen}

ChunkInit ==
    /\ EmptyStore
    /\ run = IdleRun
    /\ upload_frame = IdleUpload
    /\ delete_frames = [r \in DeleteRequests |-> IdleDelete]
    /\ reader = IdleReader
    /\ tfidf_call = IdleTfidfCall
    /\ chunk_call \in {[pc |-> "called", text |-> t, chunk_size |-> size, overlap |-> o,
                         result |-> <<>>] :
                            t \in ChunkTexts, size \in 1..MaxChunkSize, o \in 0..MaxOverlap}

\* the call returns the list of chunks (lines 187-195)
chunk_text_returns ==
    /\ chunk_call.pc = "called"
    /\ ~chunk_text_raises(chunk_call.chunk_size, chunk_call.overlap)
    /\ chunk_call' = [chunk_call EXCEPT
            !.pc = "returned",
            !.result = chunk_text(chunk_call.text, chunk_call.chunk_size,
                                  chunk_call.overlap)]
    /\ UNCHANGED <<documents, document_chunks, research_sessions, uploads, chunk_ids, run,
                   db_lock, upload_frame, delete_frames, reader, tfidf_call>>

\* range() raises ValueError for a step of zero (line 190)
chunk_text_raises_error ==
    /\ chunk_call.pc = "called"
    /\ chunk_text_raises(chunk_call.chunk_size, chunk_call.overlap)
    /\ chunk_call' = [chunk_call EXCEPT !.pc = "raised"]
    /\ UNCHANGED <<documents, document_chunks, research_sessions, uploads, chunk_ids, run,
                   db_lock, upload_frame, delete_frames, reader, tfidf_call>>

ChunkNext ==
    \/ chunk_text_returns
    \/ chunk_text_raises_error

ChunkSpec == ChunkInit /\ [][ChunkNext]_vars

\* ============================================================================
\* The indexer and the scorer: calculate_tf_idf called on a chunk list, and
\* step 1 of the pipeline over the corpora that uploads have indexed.
\* ============================================================================
IndexInit ==
    /\ EmptyStore
    /\ run = IdleRun
    /\ upload_frame = IdleUpload
    /\ delete_frames = [r \in DeleteRequests |-> IdleDelete]
    /\ reader = IdleReader
    /\ chunk_call = IdleChunkCall
    /\ tfidf_call \in {IdleTfidfCall} \cup
            {[pc |-> "called", chunks |-> chunks, result |-> <<>>] : chunks \in ChunkLists}

\* the call returns the vectors, one per chunk (lines 214-242)
calculate_tf_idf_returns ==
    /\ tfidf_call.pc = "called"
    /\ tfidf_call' = [tfidf_call EXCEPT !.pc = "returned",
                                        !.result = calculate_tf_idf(tfidf_call.chunks)]
    /\ UNCHANGED <<documents, document_chunks, research_sessions, uploads, chunk_ids, run,
                   db_lock, upload_frame, delete_frames, reader, chunk_call>>

\* either the direct call, or uploads, deletions and a request up to step 1
IndexNext ==
    \/ calculate_tf_idf_returns
    \/ tfidf_call.pc = "idle" /\ \E f \in IndexFiles : upload_document(f) /\ UNCHANGED handlerVars
    \/ tfidf_call.pc = "idle" /\ delete_all_documents /\ UNCHANGED handlerVars
    \/ tfidf_call.pc = "idle" /\ \E q \in IndexQueries : research_query(q) /\ UNCHANGED handlerVars
    \/ InitialRetrieval /\ UNCHANGED handlerVars
    \/ RetrievalFails /\ UNCHANGED handlerVars

IndexSpec == IndexInit /\ [][IndexNext]_vars

\* ------------------------------------------------------------ claims
\* the run has returned the result of a completed pipeline
Completed ==
    run.pc = "done" /\ run.response.status_code = 200 /\ run.response.status = "completed"

\* the run has returned with the no-documents outcome
NoEvidence ==
    /\ run.pc = "done" /\ run.response.status_code = 200
    /\ run.response.status = "failed" /\ run.response.final_answer = NO_DOCUMENTS

\* the index of the first chunk of s with the given id
first_index(s, id) == CHOOSE i \in DOMAIN s : s[i].id = id /\ \A j \in 1..(i - 1) : s[j].id # id

\* C1: once the evidence is deduplicated, the unique list holds each chunk id of
\* step 1 followed by step 3 exactly once, as its first occurrence and in the
\* order of the first occurrences; the final prompt numbers the unique chunks
\* 1..N in that order, and once the citations are built there is one per unique
\* chunk with source_number equal to that position.
C1_DedupKeepsFirstSeenOrder ==
    Len(run.gen_calls) >= 2 =>
        LET all_chunks == run.step1_chunks \o run.step3_chunks
            unique == run.unique_chunks
            context == run.gen_calls[2].context
        IN  /\ {unique[i].id : i \in DOMAIN unique} = {all_chunks[i].id : i \in DOMAIN all_chunks}
            /\ \A i \in DOMAIN unique : unique[i] = all_chunks[first_index(all_chunks, unique[i].id)]
            /\ \A i, j \in DOMAIN unique :
                  i < j => first_index(all_chunks, unique[i].id) < first_index(all_chunks, unique[j].id)
            /\ Len(context) = Len(unique)
            /\ \A i \in DOMAIN unique :
                  context[i].source = i /\ context[i].content = unique[i].content
            /\ Len(run.gen_responses) = 2 =>
                  /\ Len(run.citations) = Len(unique)
                  /\ \A i \in DOMAIN unique :
                        /\ run.citations[i].source_number = i
                        /\ run.citations[i].id = unique[i].id
            /\ Completed => run.response.citations = run.citations

\* C1 witness: a completed run whose step 1 found chunk 1 only and whose two gap
\* retrievals found 1, 2 and then 2, 1: the merged order is 1, 2
C1_Witness ==
    /\ Completed
    /\ chunk_id_list(run.step1_chunks) = <<1>>
    /\ chunk_id_list(run.step3_chunks) = <<1, 2, 2, 1>>
    /\ chunk_id_list(run.unique_chunks) = <<1, 2>>
    /\ [i \in DOMAIN run.citations |-> run.citations[i].source_number] = <<1, 2>>

\* C2: when the initial retrieval returns while the corpus holds no chunk, the
\* request ends at once with HTTP 200, status failed and the no-documents
\* message; the generation service has not been called and nothing is raised.
C2_EmptyCorpusGivesNoDocuments ==
    [][(run.pc = "Retrieving1" /\ run'.pc \notin {"Retrieving1", "except"}
            /\ document_chunks = <<>>)
        => /\ run'.pc = "done"
           /\ run'.response.status_code = 200
           /\ run'.response.status = "failed"
           /\ run'.response.final_answer = NO_DOCUMENTS
           /\ run'.gen_calls = <<>>
           /\ run'.error = ""]_vars

\* C2 witness: the no-documents answer, given after documents had been uploaded
\* and deleted again
C2_Witness == NoEvidence /\ uploads > 0 /\ documents = <<>> /\ run.gen_calls = <<>>

\* C3: when a step after the initial retrieval has raised, the except branch
\* stores the failed session (query only) under the session id and the caller
\* gets status failed with the error message.
C3_FailureStoresFailedSession ==
    [][(run.pc = "except" /\ run'.pc = "done" /\ run.scorer_calls # <<>>)
        => /\ research_sessions' = (run.session_id :> [id |-> run.session_id, query |-> run.query,
                                                       status |-> "failed"]) @@ research_sessions
           /\ run'.response.status_code = 200
           /\ run'.response.session_id = run.session_id
           /\ run'.response.status = "failed"
           /\ run'.response.final_answer = <<"Error processing query: ", run.error>>]_vars

\* C4: whenever POST /research answers with a session id, the store holds a
\* session (completed or failed) under that id at that moment.
C4_ReturnedSessionIsStored ==
    [][(run.pc # "done" /\ run'.pc = "done" /\ run'.response.status_code = 200)
        => /\ run'.response.session_id \in DOMAIN research_sessions'
           /\ research_sessions'[run'.response.session_id].status \in {"completed", "failed"}]_vars

\* C5 (as stated): a run of process_query that has ended has called the
\* generation service exactly twice.
C5_ExactlyTwoGenerationCalls ==
    (run.pc = "done" /\ run.session_id # "") => Len(run.gen_calls) = 2

\* C5 (amended): never more than two generation calls; exactly two in a run that
\* completed; none in a run that ended with the no-documents outcome.
C5_GenerationCallsByOutcome ==
    /\ Len(run.gen_calls) <= 2
    /\ Completed => Len(run.gen_calls) = 2
    /\ NoEvidence => Len(run.gen_calls) = 0

\* C5 witness: a completed run, with its two calls, the first with the step-1
\* prompt and the second with the final prompt
C5_Witness ==
    /\ Completed
    /\ Len(run.gen_calls) = 2
    /\ run.gen_calls[1].max_tokens = 1000
    /\ run.gen_calls[2].max_tokens = 1500

\* C6: the second generation call is made only when the first has returned and
\* been parsed and every gap retrieval has returned; its prompt carries the
\* parsed initial answer; at most one call is outstanding.
C6_GenerationCallsSequential ==
    /\ Len(run.gen_calls) <= Len(run.gen_responses) + 1
    /\ Len(run.gen_calls) >= 2 =>
          /\ Len(run.gen_responses) >= 1
          /\ run.initial_answer = parse_first_response(run.gen_responses[1]).initial_answer
          /\ run.gap_questions = parse_first_response(run.gen_responses[1]).gap_questions
          /\ run.gaps_done = Len(run.gap_questions)
          /\ Len(run.scorer_calls) = 1 + Len(run.gap_questions)
          /\ run.gen_calls[2].initial_answer = run.initial_answer

\* C6 witness: the second call is outstanding after two gap retrievals, with the
\* parsed answer "found" in its prompt
C6_Witness ==
    /\ run.pc = "Generating2"
    /\ Len(run.gap_questions) = 2
    /\ run.gaps_done = 2
    /\ run.gen_calls[2].initial_answer = <<"found">>

\* the concatenation of the results of the scorer calls from..Len
RECURSIVE results_from(_, _)
results_from(calls, from) ==
    IF from > Len(calls) THEN <<>> ELSE calls[from].result \o results_from(calls, from + 1)

\* C7: the secondary scorer calls are one per gap question, in gap order, each
\* with k = 5; step 3 holds their results in that order; unless something
\* raised, the run stays in Retrieving2 until every gap has been searched, and
\* by the second generation call all n calls have been made.
C7_OneRetrievalPerGap ==
    /\ Len(run.scorer_calls) <= 1 + Len(run.gap_questions)
    /\ run.scorer_calls # <<>> =>
          /\ run.scorer_calls[1].top_k = TOP_K_INITIAL
          /\ Len(run.scorer_calls) = 1 + run.gaps_done
    /\ \A i \in DOMAIN run.scorer_calls :
          i > 1 => /\ run.scorer_calls[i].top_k = 5
                   /\ run.scorer_calls[i].query = run.gap_questions[i - 1]
    /\ chunk_id_list(run.step3_chunks) = results_from(run.scorer_calls, 2)
    /\ (run.gen_responses # <<>> /\ run.gaps_done < Len(run.gap_questions) /\ run.error = "")
          => run.pc = "Retrieving2"
    /\ Len(run.gen_calls) >= 2 => Len(run.scorer_calls) = 1 + Len(run.gap_questions)

\* C7 witness: a completed run with two gaps whose first gap retrieval found
\* nothing and whose second found a chunk
C7_Witness ==
    /\ Completed
    /\ Len(run.gap_questions) = 2
    /\ Len(run.scorer_calls) = 3
    /\ run.scorer_calls[2].result = <<>>
    /\ run.scorer_calls[3].result # <<>>

\* C8: a first response without the INITIAL_ANSWER label gives the raw text as
\* the initial answer and no gap questions.
C8_UnparseableFallsBackToRawText ==
    (run.gen_responses # <<>> /\ ~str_in(IA, run.gen_responses[1]))
        => /\ run.initial_answer \in {run.gen_responses[1], str_strip(run.gen_responses[1])}
           /\ run.gap_questions = <<>>

\* C9: a first response with the INITIAL_ANSWER label and no GAP_QUESTIONS label
\* gives no gap questions and no secondary retrieval; the second generation
\* call follows at once over the step-1 chunks, and the citations and the
\* completed session are built from the step-1 chunks only.
C9_NoGapSectionGoesOnWithStep1 ==
    (run.gen_responses # <<>> /\ str_in(IA, run.gen_responses[1])
            /\ ~str_in(GQ, run.gen_responses[1]))
        => /\ run.gap_questions = <<>>
           /\ Len(run.scorer_calls) = 1
           /\ run.step3_chunks = <<>>
           /\ Len(run.gen_calls) = 2
           /\ run.unique_chunks = run.step1_chunks
           /\ run.error = "" => run.pc \in {"Generating2", "Saving", "done"}
           /\ Len(run.gen_responses) = 2 =>
                 [i \in DOMAIN run.citations |-> run.citations[i].id]
                     = chunk_id_list(run.step1_chunks)
           /\ (run.pc = "done" /\ run.error = "") => Completed

\* C9 witness: such a run, completed, citing its step-1 chunks
C9_Witness ==
    /\ Completed
    /\ run.gen_responses[1] = <<IA, SP, "found", SP>>
    /\ run.response.gap_questions = <<>>
    /\ Len(run.response.citations) = Len(run.step1_chunks)
    /\ Len(run.step1_chunks) = 2

\* C10: a completed session in the store belongs to a run in which nothing
\* raised, step 1 found a chunk, both generation responses arrived and every
\* gap was searched; its columns are the values of that run, which are also the
\* values returned.
C10_CompletedSessionIsGenuine ==
    (SESSION_ID \in DOMAIN research_sessions
            /\ research_sessions[SESSION_ID].status = "completed")
        => LET row == research_sessions[SESSION_ID]
           IN  /\ run.error = ""
               /\ Completed
               /\ Len(run.step1_chunks) >= 1
               /\ Len(run.gen_responses) = 2
               /\ Len(run.scorer_calls) = 1 + Len(run.gap_questions)
               /\ row.query = run.query
               /\ row.step1_chunks = run.scorer_calls[1].result
               /\ row.step3_chunks = results_from(run.scorer_calls, 2)
               /\ row.step1_answer = parse_first_response(run.gen_responses[1]).initial_answer
               /\ row.gap_questions = parse_first_response(run.gen_responses[1]).gap_questions
               /\ row.final_answer = parse_final_response(run.gen_responses[2])
               /\ row.citations = run.citations
               /\ run.response.session_id = row.id
               /\ run.response.step1_answer = row.step1_answer
               /\ run.response.gap_questions = row.gap_questions
               /\ run.response.final_answer = row.final_answer
               /\ run.response.citations = row.citations

\* C10 witness: a completed session with gap questions and step-3 chunks, stored
C10_Witness ==
    /\ SESSION_ID \in DOMAIN research_sessions
    /\ research_sessions[SESSION_ID].status = "completed"
    /\ Len(research_sessions[SESSION_ID].gap_questions) = 2
    /\ research_sessions[SESSION_ID].step3_chunks # <<>>
    /\ research_sessions[SESSION_ID].final_answer = <<"final">>

\* ------------------------------------------------------------------ C11
\* the chunk rows stored for a document
chunks_of(document_id) == SelectSeq(document_chunks, LAMBDA c : c.document_id = document_id)

IsStored(document_id) == \E i \in DOMAIN documents : documents[i].id = document_id

DetailsAnswered ==
    reader.pc = "done" /\ reader.response.status_code = 200
                       /\ "chunk_count" \in DOMAIN reader.response

\* C11: after any sequence of uploads and deletions every stored document's
\* chunk_count equals the number of chunk rows that reference it, and
\* get_document_details of a stored document answers a chunk_count equal to
\* the length of the chunks list it answers (and to the rows stored).
C11_ChunkCountMatchesChunks ==
    /\ \A i \in DOMAIN documents :
            documents[i].chunk_count = Len(chunks_of(documents[i].id))
    /\ (DetailsAnswered /\ IsStored(reader.response.id))
            => /\ reader.response.chunk_count = Len(reader.response.chunks)
               /\ Len(reader.response.chunks) = Len(chunks_of(reader.response.id))

\* the details of a two-chunk document, fetched after another document was
\* uploaded and deleted again
C11_Witness ==
    /\ DetailsAnswered /\ IsStored(reader.response.id)
    /\ reader.response.chunk_count = 2
    /\ Len(reader.response.chunks) = 2
    /\ uploads = 2 /\ Len(documents) = 1

\* ------------------------------------------------------------------ C12
\* C12: no document deletion (delete_document, delete_all_documents) removes
\* or alters a stored research session: every step of a deletion leaves the
\* table research_sessions as it was.
C12_DeletionKeepsSessions ==
    [][((\E d \in 1..MaxUploads : delete_document(d)) \/ delete_all_documents)
            => research_sessions' = research_sessions]_vars

\* ------------------------------------------------------------------ C13
\* the chunks and vectors upload_document computes for the file of that name
ingested(filename) == indexed[CHOOSE f \in StoreFiles : f.filename = filename]

SearchAnswered ==
    reader.pc = "done" /\ reader.response.status_code = 200
                       /\ "chunk_count" \notin DOMAIN reader.response

\* the rows of a read result that belong to one document
rows_of(rows, document_id) == SelectSeq(rows, LAMBDA c : c.document_id = document_id)

\* a read result holds every chunk of the document, in order, with its text
AllChunksSeen(rows, filename) ==
    /\ Len(rows) = Len(ingested(filename).chunks)
    /\ \A i \in DOMAIN rows : /\ rows[i].chunk_index = i - 1
                               /\ rows[i].content = ingested(filename).chunks[i]

\* C13: ingestion is atomic for readers.  While an upload is inserting, none
\* of its rows is in the committed store; every committed document has all of
\* its chunk rows, each with its TF-IDF vector; search_chunks returns, for
\* every document it returns a chunk of, all of that document's chunks; and
\* get_document_details of a document still stored returns all of its chunks.
C13_IngestionAtomicForReaders ==
    /\ upload_frame.pc = "Inserting"
            => /\ ~IsStored(upload_frame.rows[1].document_id)
               /\ chunks_of(upload_frame.rows[1].document_id) = <<>>
    /\ \A i \in DOMAIN documents :
            LET rows == chunks_of(documents[i].id)
            IN  /\ AllChunksSeen(rows, documents[i].filename)
                /\ \A j \in DOMAIN rows :
                        rows[j].tf_idf_vector = ingested(documents[i].filename).tfidf_vectors[j]
    /\ \A j \in DOMAIN document_chunks : IsStored(document_chunks[j].document_id)
    /\ (SearchAnswered /\ Len(reader.response.chunks) < TOP_K_INITIAL)
            => \A j \in DOMAIN reader.response.chunks :
                    LET c == reader.response.chunks[j]
                    IN  AllChunksSeen(rows_of(reader.response.chunks, c.document_id),
                                      c.filename)
    /\ (DetailsAnswered /\ IsStored(reader.response.id))
            => AllChunksSeen(reader.response.chunks, reader.response.filename)

\* a search answered with both chunks of the first document while the upload
\* of a second document has inserted one of its two chunk rows
C13_Witness ==
    /\ upload_frame.pc = "Inserting"
    /\ Len(upload_frame.rows) = 2 /\ Len(upload_frame.pending_chunks) = 1
    /\ SearchAnswered
    /\ Len(reader.response.chunks) = 2
    /\ \A j \in DOMAIN reader.response.chunks :
            reader.response.chunks[j].document_id # upload_frame.rows[1].document_id

\* ------------------------------------------------------------------ C14
\* the step in which request r runs the SELECT of its document row
DeleteSelects(r) ==
    /\ delete_frames[r].pc \in {"idle", "done"}
    /\ delete_frames'[r] # delete_frames[r]

\* C14: delete_document with an id that is not in the store answers
\* HTTP 404 "Document not found", ends there, and leaves documents, chunks
\* and sessions unchanged.
C14_DeleteUnknownIsNotFound ==
    [][\A r \in DeleteRequests :
            (DeleteSelects(r) /\ ~IsStored(delete_frames'[r].document_id))
                => /\ delete_frames'[r].pc = "done"
                   /\ delete_frames'[r].response = http_error(404, "Document not found")
                   /\ UNCHANGED <<documents, document_chunks, research_sessions>>]_vars

\* NotFound for a document that was deleted before, another one still stored
C14_Witness ==
    \E r \in DeleteRequests :
        /\ delete_frames[r].pc = "done"
        /\ delete_frames[r].response.status_code = 404
        /\ delete_frames[r].document_id <= uploads
        /\ documents # <<>>

\* ------------------------------------------------------------------ C15
\* C15: an upload whose filename extension is not pdf, docx, html, htm or txt
\* is answered HTTP 400 "Unsupported file format" before anything is chunked
\* or indexed: no document id is drawn, no row is pending or stored, and the
\* write lock is not taken.
C15_UnsupportedFormatRejected ==
    [][\A f \in StoreFiles :
            (file_type_of(f.filename) \notin {"pdf", "docx", "html", "htm", "txt"}
                /\ upload_document_begin(f))
                => /\ upload_frame'.pc = "done"
                   /\ upload_frame'.response = [status_code |-> 400,
                                                detail |-> "Unsupported file format"]
                   /\ upload_frame'.rows = <<>>
                   /\ upload_frame'.pending_documents = <<>>
                   /\ upload_frame'.pending_chunks = <<>>
                   /\ UNCHANGED <<documents, document_chunks, uploads, chunk_ids,
                                  db_lock>>]_vars

\* an upload rejected for its format while one document is stored
C15_Witness ==
    /\ upload_frame.pc = "done"
    /\ upload_frame.response = [status_code |-> 400, detail |-> "Unsupported file format"]
    /\ Len(documents) = 1
    /\ Len(document_chunks) = documents[1].chunk_count

\* ------------------------------------------------------------------ C16
\* the step in which request r commits its two DELETEs and answers 200
DeleteSucceeds(r) ==
    /\ delete_frames[r].pc = "Deleting"
    /\ delete_frames'[r].pc = "done"
    /\ delete_frames'[r].response.status_code = 200

\* C16: a successful delete_document removes the document row and every
\* chunk row referencing it and nothing else, and the deleted_chunks it
\* returns is the number of chunk rows that request removed.
C16_DeleteRemovesWhatItReports ==
    [][\A r \in DeleteRequests :
            DeleteSucceeds(r)
                => LET id == delete_frames[r].document_id
                   IN  /\ IsStored(id)
                       /\ documents' = SelectSeq(documents, LAMBDA d : d.id # id)
                       /\ document_chunks' =
                                SelectSeq(document_chunks, LAMBDA c : c.document_id # id)
                       /\ research_sessions' = research_sessions
                       /\ delete_frames'[r].response.deleted_chunks =
                                Len(document_chunks) - Len(document_chunks')]_vars

\* ------------------------------------------------------------------ C17
\* C17: the sequence search_chunks returns is sorted by final score
\* descending, and of two candidates with equal final score the one with the
\* lower chunk id comes first.
C17_SortedByScoreThenId ==
    SearchAnswered
        => LET r == reader.response.chunks
           IN  \A i, j \in DOMAIN r :
                    i < j => \/ r[i].score > r[j].score
                             \/ r[i].score = r[j].score /\ r[i].id < r[j].id

\* ------------------------------------------------------------------ C18
\* the step in which the reader's search runs its SELECT and answers
SearchReturns == reader.pc = "Searching" /\ reader'.pc = "done"

\* C18: search_chunks(query, k) over a corpus of n chunks answers without an
\* error exactly min(k, n) results, all of them distinct candidates, and no
\* candidate left out scores higher than one returned; with n = 0 the result
\* is the empty sequence.
C18_TopKOfCandidates ==
    [][SearchReturns
        => LET r == reader'.response.chunks
               k == reader.top_k
               n == Len(joined_rows(documents, document_chunks))
               candidates == search_chunks(documents, document_chunks, reader.op, n)
               returned == {r[i].id : i \in DOMAIN r}
           IN  /\ reader'.response.status_code = 200
               /\ Len(r) = IF k < n THEN k ELSE n
               /\ Cardinality(returned) = Len(r)
               /\ \A i \in DOMAIN r : \E j \in DOMAIN candidates : candidates[j] = r[i]
               /\ \A j \in DOMAIN candidates :
                        candidates[j].id \notin returned
                            => \A i \in DOMAIN r : r[i].score >= candidates[j].score
               /\ n = 0 => r = <<>>]_vars

\* one result asked of a corpus of two chunks: the second row scores higher
\* and is the one returned
C18_Witness ==
    /\ SearchAnswered
    /\ reader.top_k = 1
    /\ Len(document_chunks) = 2
    /\ Len(reader.response.chunks) = 1
    /\ reader.response.chunks[1].id = document_chunks[2].id
    /\ reader.response.chunks[1].score > 0

\* ------------------------------------------------------------------ C19
\* the words of the text passed to chunk_text
call_words == str_split(chunk_call.text)

\* the words chunk i of the result is made of
chunk_words_at(i) == str_split(chunk_call.result[i])

min_of(a, b) == IF a < b THEN a ELSE b

\* C19: for 0 <= overlap < size, chunk_text(T, size, overlap) returns no
\* empty and no whitespace-only chunk, every chunk has at most size words,
\* chunk i holds the words of T from position (i - 1) * (size - overlap) on
\* (so consecutive chunks start size - overlap words apart), and every word
\* of T lies in at least one chunk, in its original order.
C19_ChunksCoverTheText ==
    (chunk_call.pc = "returned" /\ chunk_call.overlap < chunk_call.chunk_size)
        => LET size == chunk_call.chunk_size
               step == chunk_call.chunk_size - chunk_call.overlap
               chunks == chunk_call.result
           IN  /\ \A i \in DOMAIN chunks :
                    /\ chunks[i] # <<>>
                    /\ str_strip(chunks[i]) # <<>>
                    /\ Len(chunk_words_at(i)) <= size
                    /\ chunk_words_at(i) =
                            SubSeq(call_words, (i - 1) * step + 1,
                                   min_of((i - 1) * step + size, Len(call_words)))
               /\ \A p \in DOMAIN call_words :
                    \E i \in DOMAIN chunks :
                        /\ (i - 1) * step < p
                        /\ p <= (i - 1) * step + Len(chunk_words_at(i))
                        /\ chunk_words_at(i)[p - (i - 1) * step] = call_words[p]

\* a text with whitespace around three words, cut with overlap into two chunks
C19_Witness ==
    /\ chunk_call.pc = "returned"
    /\ chunk_call.chunk_size = 2 /\ chunk_call.overlap = 1
    /\ chunk_call.text = <<SP, "a", "b", "a", SP>>
    /\ chunk_call.result = << <<"a", SP, "b">>, <<"b", SP, "a">>, <<"a">> >>

\* ------------------------------------------------------------------ C20
\* C20: called with overlap >= size, chunk_text rejects the call or clamps
\* the overlap: it never returns a result that leaves out a word of a
\* non-empty text.
C20_OverlapNotBelowSizeLosesNoWord ==
    (chunk_call.pc = "returned" /\ chunk_call.overlap >= chunk_call.chunk_size)
        => \A p \in DOMAIN call_words :
                \E i \in DOMAIN chunk_call.result :
                    \E j \in DOMAIN chunk_words_at(i) : chunk_words_at(i)[j] = call_words[p]

\* C21: POST /research with an empty query string is answered with HTTP
\* status 200 (a result body carrying an error message), not an error status.
C21_EmptyQueryAnswered200 ==
    (run.pc = "done" /\ run.request_query = <<>>) => run.response.status_code = 200

\* the upload limit of 10 MB; the handler has none
MAX_UPLOAD_BYTES == 10 * 1024 * 1024

\* C22: an upload whose content is larger than 10 MB is rejected with HTTP
\* 400 and stores no document or chunk.
C22_LargeUploadRejected ==
    [][\A f \in UploadFiles :
            (content_length(f) > MAX_UPLOAD_BYTES /\ upload_document_begin(f))
                => /\ upload_frame'.pc = "done"
                   /\ upload_frame'.response.status_code = 400
                   /\ UNCHANGED <<documents, document_chunks>>]_vars

\* the state of the query run, from the position of process_query: the run
\* is in Generating2 until the session is saved, and has failed once an
\* exception has left the try block
run_state ==
    CASE run.pc = "idle" -> "Idle"
      [] run.pc \in {"Retrieving1", "Generating1", "Retrieving2", "Generating2"} -> run.pc
      [] run.pc = "Saving" -> "Generating2"
      [] run.pc = "except" -> "Failed"
      [] run.pc = "done" ->
            IF run.response.status_code = 400 THEN "Rejected"
            ELSE IF Completed THEN "Completed"
            ELSE "Failed"

NonTerminal == {"Retrieving1", "Generating1", "Retrieving2", "Generating2"}

\* the successors a state may have; Retrieving2 makes no retrieval for an
\* empty gap list, so Generating1 may then be followed by Generating2
MayFollow(from, to, gap_questions) ==
    \/ from = "Idle" /\ to \in {"Retrieving1", "Rejected"}
    \/ from \in NonTerminal /\ to = "Failed"
    \/ from = "Retrieving1" /\ to = "Generating1"
    \/ from = "Generating1" /\ to = "Retrieving2" /\ gap_questions # <<>>
    \/ from = "Generating1" /\ to = "Generating2" /\ gap_questions = <<>>
    \/ from = "Retrieving2" /\ to = "Generating2"
    \/ from = "Generating2" /\ to = "Completed"

\* the awaited call raises and the run fails
RunFails ==
    /\ RetrievalFails \/ GenerationFails \/ SaveSessionFails
    /\ UNCHANGED handlerVars
    /\ run_state' = "Failed"

\* C23: each query run moves through Retrieving1, Generating1, Retrieving2,
\* Generating2, Completed in that order without skipping or repeating a state,
\* may leave to Failed from any non-terminal state, never leaves Completed or
\* Failed, and, as every storage and generation call eventually returns or
\* raises, eventually reaches Completed or Failed.
C23_RunStateMachine ==
    /\ [][run_state' # run_state => MayFollow(run_state, run_state', run'.gap_questions)]_vars
    /\ [](run_state \in NonTerminal => ENABLED RunFails)
    /\ (run_state \in NonTerminal) ~> (run_state \in {"Completed", "Failed"})

\* a run that made every gap retrieval and both generation calls has completed
C23_Witness ==
    /\ run_state = "Completed"
    /\ Len(run.gap_questions) = 2
    /\ Len(run.scorer_calls) = 3
    /\ Len(run.gen_responses) = 2

\* the text after the first occurrence of label in s
text_after(s, label) ==
    LET i == CHOOSE k \in DOMAIN s : s[k] = label /\ \A j \in 1..(k - 1) : s[j] # label
    IN  SubSeq(s, i + 1, Len(s))

\* the segments of s between semicolons, each trimmed, the empty ones dropped
trimmed_segments(s) ==
    LET segments == str_split_on(s, SEMI)
        trimmed == [i \in DOMAIN segments |-> str_strip(segments[i])]
    IN  SelectSeq(trimmed, LAMBDA q : q # <<>>)

\* the first response has arrived and holds a gap-questions section
GapSectionParsed == Len(run.gen_responses) >= 1 /\ str_in(GQ, run.gen_responses[1])

\* C24: whenever the first-round response contains a gap-questions section,
\* the parsed gap list is the semicolon-separated segments of the text after
\* the GAP_QUESTIONS label, trimmed, without the empty ones, in order, whether
\* or not the response holds the initial-answer label.
C24_GapListIsTrimmedSegments ==
    GapSectionParsed =>
        run.gap_questions = trimmed_segments(text_after(run.gen_responses[1], GQ))

\* the final answer the second-round response stands for
expected_final_answer(final_response) ==
    IF \E i \in DOMAIN final_response : final_response[i] = FA
    THEN str_strip(SelectSeq(final_response, LAMBDA t : t # FA))
    ELSE final_response

\* the second response arrives
SecondResponseArrives == run.pc = "Generating2" /\ Len(run'.gen_responses) = 2

\* C25: the final answer stored and returned is the second-round response
\* with the FINAL_ANSWER label removed and the text trimmed when the label is
\* present, and the raw response text when it is absent; an absent label
\* never fails the run.
C25_FinalAnswerFromSecondResponse ==
    /\ [][SecondResponseArrives =>
            /\ run'.pc = "Saving" /\ run'.error = ""
            /\ run'.final_answer = expected_final_answer(run'.gen_responses[2])]_vars
    /\ [](Completed =>
            /\ run.response.final_answer = expected_final_answer(run.gen_responses[2])
            /\ (run.session_id \in DOMAIN research_sessions =>
                    research_sessions[run.session_id].final_answer
                        = expected_final_answer(run.gen_responses[2])))

\* a run completed on a second response without the label: the raw text,
\* trailing whitespace included, is returned and stored
C25_Witness ==
    /\ Completed
    /\ ~str_in(FA, run.gen_responses[2])
    /\ run.response.final_answer = <<"final", SP>>
    /\ run.session_id \in DOMAIN research_sessions
    /\ research_sessions[run.session_id].final_answer = <<"final", SP>>

\* the initial retrieval returns (it does not raise)
InitialRetrievalReturns == run.pc = "Retrieving1" /\ run'.pc \in {"Generating1", "done"}

\* C26: the scorer applies no relevance threshold: with n >= 1 chunks in the
\* corpus at the initial retrieval, step 1 returns exactly min(8, n) chunks,
\* chunks of final score 0 among them, so the no-documents outcome occurs if
\* and only if the corpus has zero chunks at that moment, whatever the query.
C26_NoRelevanceThreshold ==
    [][InitialRetrievalReturns =>
            LET n == Len(document_chunks)
            IN  /\ n >= 1 => /\ run'.pc = "Generating1"
                             /\ Len(run'.step1_chunks) = min_of(TOP_K_INITIAL, n)
                /\ NoEvidence' <=> n = 0]_vars

\* step 1 has returned 8 of more than 8 chunks for a query of stop words:
\* every one of them has final score 0
C26_Witness ==
    /\ run.pc = "Generating1"
    /\ preprocess_text(run.query) = <<>>
    /\ Len(document_chunks) > TOP_K_INITIAL
    /\ Len(run.step1_chunks) = TOP_K_INITIAL
    /\ \A i \in DOMAIN run.step1_chunks : run.step1_chunks[i].score = 0

\* the normalized tokens of the chunk's content hold a term of the query
HasQueryTerm(query, content) ==
    words_of(preprocess_text(query)) \cap words_of(preprocess_text(content)) # {}

\* C27: for a query with at least one surviving term, a chunk whose
\* normalized tokens hold none of the query terms gets final score exactly 0
\* and a chunk that holds one gets a final score above 0, so it ranks
\* strictly above every chunk that holds none.
C27_TermChunksRankAboveOthers ==
    [][(InitialRetrievalReturns /\ preprocess_text(run.query) # <<>>) =>
            LET result == run'.step1_chunks
                returned == {result[i].id : i \in DOMAIN result}
                holds_term == [i \in DOMAIN result |->
                                    HasQueryTerm(run.query, result[i].content)]
                left_out == {k \in DOMAIN document_chunks :
                                    document_chunks[k].id \notin returned}
            IN  /\ \A i \in DOMAIN result :
                        IF holds_term[i] THEN result[i].score > 0 ELSE result[i].score = 0
                /\ \A i, j \in DOMAIN result :
                        (holds_term[i] /\ ~holds_term[j])
                            => i < j /\ result[i].score > result[j].score
                /\ (\E k \in left_out : HasQueryTerm(run.query, document_chunks[k].content))
                        => \A i \in DOMAIN result : holds_term[i]]_vars

\* step 1 has returned two chunks of one document, the first holding a query
\* term and scored above 0 on both parts, the second holding none and scored 0
C27_Witness ==
    /\ run.pc = "Generating1"
    /\ \E i, j \in DOMAIN run.step1_chunks :
            /\ i < j
            /\ run.step1_chunks[i].document_id = run.step1_chunks[j].document_id
            /\ HasQueryTerm(run.query, run.step1_chunks[i].content)
            /\ run.step1_chunks[i].semantic_score > 0
            /\ run.step1_chunks[i].keyword_score > 0
            /\ ~HasQueryTerm(run.query, run.step1_chunks[j].content)
            /\ run.step1_chunks[j].score = 0

\* the direct call of calculate_tf_idf has returned
TfIdfReturned == tfidf_call.pc = "returned"

\* C28: neither the indexer nor the scorer fails on empty token sets:
\* calculate_tf_idf gives an empty weight mapping for a chunk with zero
\* surviving tokens and an empty result for an empty chunk list, and
\* search_chunks with a query of zero surviving terms gives every candidate
\* keyword score 0 and semantic score 0 and still returns min(k, n) results.
C28_EmptyTokenSetsAreNoError ==
    /\ [](TfIdfReturned =>
            /\ DOMAIN tfidf_call.result = DOMAIN tfidf_call.chunks
            /\ tfidf_call.chunks = <<>> => tfidf_call.result = <<>>
            /\ \A i \in DOMAIN tfidf_call.chunks :
                    preprocess_text(tfidf_call.chunks[i]) = <<>>
                        => DOMAIN tfidf_call.result[i] = {})
    /\ [][(InitialRetrievalReturns /\ preprocess_text(run.query) = <<>>) =>
            /\ Len(run'.step1_chunks) = min_of(TOP_K_INITIAL, Len(document_chunks))
            /\ \A i \in DOMAIN run'.step1_chunks :
                    /\ run'.step1_chunks[i].keyword_score = 0
                    /\ run'.step1_chunks[i].semantic_score = 0]_vars

\* a query of stop words has been scored against a stored chunk of stop
\* words, whose weight mapping is empty: both scores are 0 and it is returned
C28_Witness ==
    /\ run.pc = "Generating1"
    /\ preprocess_text(run.query) = <<>>
    /\ \E i \in DOMAIN run.step1_chunks, k \in DOMAIN document_chunks :
            /\ run.step1_chunks[i].id = document_chunks[k].id
            /\ document_chunks[k].content = <<"the", SP, "and">>
            /\ DOMAIN document_chunks[k].tf_idf_vector = {}
            /\ run.step1_chunks[i].keyword_score = 0
            /\ run.step1_chunks[i].semantic_score = 0

\* the term occurs in every chunk of the list
InEveryChunk(w, chunks) ==
    \A i \in DOMAIN chunks : w \in words_of(preprocess_text(chunks[i]))

\* the stored chunk belongs to a document ingested as a single chunk
SingleChunk(document_id) ==
    \E d \in DOMAIN documents :
        documents[d].id = document_id /\ documents[d].chunk_count = 1

\* C29: for every chunk set passed to calculate_tf_idf every weight is
\* non-negative and a term that occurs in every chunk of the set gets weight
\* 0; all weights of a document ingested as a single chunk are 0, so that
\* chunk's semantic score is 0 for every query and its final score is 0.4
\* times its keyword score.
C29_WeightsNonNegativeAndZeroForCommonTerms ==
    /\ [](TfIdfReturned =>
            \A i \in DOMAIN tfidf_call.result :
                \A w \in DOMAIN tfidf_call.result[i] :
                    /\ tfidf_call.result[i][w] >= 0
                    /\ InEveryChunk(w, tfidf_call.chunks) => tfidf_call.result[i][w] = 0)
    /\ [](\A k \in DOMAIN document_chunks :
            \A w \in DOMAIN document_chunks[k].tf_idf_vector :
                /\ document_chunks[k].tf_idf_vector[w] >= 0
                /\ SingleChunk(document_chunks[k].document_id)
                        => document_chunks[k].tf_idf_vector[w] = 0)
    /\ [][InitialRetrievalReturns =>
            \A i \in DOMAIN run'.step1_chunks :
                SingleChunk(run'.step1_chunks[i].document_id) =>
                    /\ run'.step1_chunks[i].semantic_score = 0
                    /\ run'.step1_chunks[i].score
                            = (4 * run'.step1_chunks[i].keyword_score) \div 10]_vars

\* step 1 has returned the chunk of a one-chunk document that holds the
\* query term: semantic score 0, keyword score 1, final score 0.4
C29_Witness ==
    /\ run.pc = "Generating1"
    /\ \E i \in DOMAIN run.step1_chunks :
            /\ SingleChunk(run.step1_chunks[i].document_id)
            /\ run.step1_chunks[i].semantic_score = 0
            /\ run.step1_chunks[i].keyword_score = 1000
            /\ run.step1_chunks[i].score = 400

\* the stored chunk rows of a document
chunk_rows_of(document_id) ==
    {k \in DOMAIN document_chunks : document_chunks[k].document_id = document_id}

\* C30: after any sequence of uploads and deletions every stored document has
\* at least one chunk, its chunks carry the chunk_index values
\* 0..chunk_count-1 exactly once each, and every stored chunk references a
\* document that exists.
C30_DocumentsAndChunksConsistent ==
    /\ \A d \in DOMAIN documents :
            LET rows == chunk_rows_of(documents[d].id)
                indexes == 0..(documents[d].chunk_count - 1)
            IN  /\ rows # {}
                /\ \A k \in rows : document_chunks[k].chunk_index \in indexes
                /\ \A i \in indexes :
                        Cardinality({k \in rows : document_chunks[k].chunk_index = i}) = 1
    /\ \A k \in DOMAIN document_chunks :
            \E d \in DOMAIN documents : documents[d].id = document_chunks[k].document_id

\* a deletion has committed and a two-chunk document is stored beside it
C30_Witness ==
    /\ \E r \in DOMAIN delete_frames :
            /\ delete_frames[r].pc = "done"
            /\ delete_frames[r].response.status_code = 200
    /\ \E d \in DOMAIN documents :
            /\ documents[d].chunk_count = 2
            /\ Cardinality(chunk_rows_of(documents[d].id)) = 2

\* the query run is between its initial retrieval and its return
InFlight == run.pc \in {"Generating1", "Retrieving2", "Generating2", "Saving"}

\* a DELETE /documents/{id} or DELETE /documents request commits
DeletionCommits ==
    (\E d \in 1..MaxUploads : delete_document(d)) \/ delete_all_documents

\* the chunk row is in the table
ChunkStored(chunk_id) == \E k \in DOMAIN document_chunks : document_chunks[k].id = chunk_id

\* the step in which a gap retrieval returns
GapRetrievalReturns == run.pc = "Retrieving2" /\ run'.pc \in {"Retrieving2", "Generating2"}

\* the step in which the completed session is saved and the result returned
RunCompletes == run.pc = "Saving" /\ run'.pc = "done"

\* C31: a document deletion that interleaves with an in-flight query between
\* its initial retrieval and its final generation does not move that query to
\* Failed (the deletion leaves the run where it is, and the run leaves for
\* the except branch only when an awaited call raises); the completed run's
\* citations and stored step1 chunk ids include every chunk step 1 retrieved,
\* those of a document deleted since included, while a later gap retrieval
\* returns only chunks that are stored when it runs.
C31_DeletionDoesNotFailRunningQuery ==
    /\ [][(InFlight /\ DeletionCommits) => run' = run]_vars
    /\ [][(InFlight /\ run'.pc = "except")
                => (RetrievalFails \/ GenerationFails \/ SaveSessionFails)]_vars
    /\ [][GapRetrievalReturns =>
            \A i \in (Len(run.step3_chunks) + 1)..Len(run'.step3_chunks) :
                /\ IsStored(run'.step3_chunks[i].document_id)
                /\ ChunkStored(run'.step3_chunks[i].id)]_vars
    /\ [][RunCompletes =>
            /\ Completed'
            /\ research_sessions'[run.session_id].step1_chunks
                    = chunk_id_list(run.step1_chunks)
            /\ \A i \in DOMAIN run.step1_chunks :
                    \E j \in DOMAIN run'.response.citations :
                        /\ run'.response.citations[j].id = run.step1_chunks[i].id
                        /\ research_sessions'[run.session_id].citations[j].id
                                = run.step1_chunks[i].id]_vars

\* the run has completed; a chunk of step 1 belongs to a document deleted
\* before the gap retrievals, which returned other chunks but not this one,
\* and it is cited and among the stored step1 chunk ids
C31_Witness ==
    /\ Completed
    /\ run.session_id \in DOMAIN research_sessions
    /\ run.gaps_done >= 1
    /\ run.step3_chunks # <<>>
    /\ \E i \in DOMAIN run.step1_chunks :
            /\ ~IsStored(run.step1_chunks[i].document_id)
            /\ \A j \in DOMAIN run.step3_chunks :
                    run.step3_chunks[j].id # run.step1_chunks[i].id
            /\ \E j \in DOMAIN run.response.citations :
                    run.response.citations[j].id = run.step1_chunks[i].id
            /\ \E j \in DOMAIN research_sessions[run.session_id].step1_chunks :
                    research_sessions[run.session_id].step1_chunks[j] = run.step1_chunks[i].id

\* request r has answered 200 for the document
DeleteSucceeded(r, document_id) ==
    /\ delete_frames[r].pc = "done"
    /\ delete_frames[r].response.status_code = 200
    /\ delete_frames[r].response.deleted_document_id = document_id

\* C32: when two delete_document requests for the same existing document id
\* interleave, at most one of them reports success and the other gets
\* NotFound; the deleted_chunks values reported by successful requests sum to
\* the number of chunk rows actually removed (each success reports the rows
\* its own DELETE removed).
C32_OneOfTwoDeletesSucceeds ==
    [][\A r \in ConcurrentDeleteRequests :
            DeleteSucceeds(r)
                => /\ \A other \in ConcurrentDeleteRequests \ {r} :
                            ~DeleteSucceeded(other, delete_frames[r].document_id)
                   /\ delete_frames'[r].response.deleted_chunks =
                            Len(document_chunks) - Len(document_chunks')]_vars

\* the file is of a supported type and its extraction yields nothing usable:
\* bytes that do not decode or parse, or a text of whitespace only
NoUsableContent(f) ==
    /\ file_type_of(f.filename) \in {"pdf", "docx", "html", "htm", "txt"}
    /\ (~f.valid \/ str_strip(f.text) = <<>>)

\* C33: an upload whose text extraction yields no usable content (empty or
\* whitespace-only text, or bytes that cannot be decoded, for any supported
\* file type including txt) is rejected with the client error 'No text
\* content found in file' (HTTP 400), never with a server error, and stores
\* no document or chunk.
C33_NoContentIsClientError ==
    [][\A f \in UploadFiles :
            (NoUsableContent(f) /\ upload_document_begin(f))
                => /\ upload_frame'.pc = "done"
                   /\ upload_frame'.response =
                            [status_code |-> 400, detail |-> "No text content found in file"]
                   /\ UNCHANGED <<documents, document_chunks>>]_vars
====
